---------------------------- MODULE Spec2Model ----------------------------
(***************************************************************************)
(* Hybrid search (lexical + vector) over a personal corpus of notes.       *)
(*                                                                         *)
(* The module models the ingestion path (chunker, security filter, ingest  *)
(* ledger, document store), the embedding service with its fallback chain, *)
(* and the fused search with its rebuildable vector index.                 *)
(*                                                                         *)
(* Text is modelled as a sequence of tokens.  A token is either a          *)
(* separator (a blank-line boundary or a single whitespace) or an atom: a  *)
(* run of non-blank characters of a known length.  Lengths are therefore   *)
(* the lengths the code computes with len(), without spelling every        *)
(* character out.                                                          *)
(***************************************************************************)
EXTENDS Integers, Sequences, FiniteSets, TLC

(***************************************************************************)
(* Text                                                                    *)
(***************************************************************************)

\* the blank-line boundary r"\n\s*\n" and a single whitespace
NL2 == "\n\n"
SP == " "
\* a line end
NL == "\n"

\* Atoms the model's documents are made of.  An atom spelled with a final
\* full stop ends a sentence.
\* "and" and "essay" (a long run of text without punctuation) do not.
Atoms == {"fox.", "note.", "Token.", "sk-X20.", "long.", "and", "essay"}

AtomLen(a) ==
    CASE a = "fox." -> 150
      [] a = "note." -> 40
      [] a = "Token." -> 110
      [] a = "sk-X20." -> 120
      [] a = "long." -> 1100
      [] a = "and" -> 3
      [] a = "essay" -> 2100
      [] a = NL2 -> 2
      [] a = SP -> 1
      [] OTHER -> 1

\* str.lower() of an atom, as re.IGNORECASE folds it
Lower(a) ==
    CASE a = "Token." -> "token."
      [] a = "sk-X20." -> "sk-x20."
      [] OTHER -> a

RECURSIVE TextLen(_)
TextLen(t) == IF t = <<>> THEN 0 ELSE AtomLen(Head(t)) + TextLen(Tail(t))

IsSpace(tok) == tok \in {SP, NL2, NL}

RECURSIVE LStrip(_)
LStrip(t) == IF t # <<>> /\ IsSpace(Head(t)) THEN LStrip(Tail(t)) ELSE t

RECURSIVE RStrip(_)
RStrip(t) ==
    IF t # <<>> /\ IsSpace(t[Len(t)]) THEN RStrip(SubSeq(t, 1, Len(t) - 1)) ELSE t

Strip(t) == RStrip(LStrip(t))

\* re.split on a one-token separator: the segments between the separators
RECURSIVE SplitOn(_, _)
SplitOn(t, sep) ==
    IF \A i \in 1..Len(t) : t[i] # sep
    THEN <<t>>
    ELSE LET k == CHOOSE i \in 1..Len(t) :
                     t[i] = sep /\ \A j \in 1..(i - 1) : t[j] # sep
         IN <<SubSeq(t, 1, k - 1)>> \o SplitOn(SubSeq(t, k + 1, Len(t)), sep)

RECURSIVE SelectNonEmpty(_)
SelectNonEmpty(ss) ==
    IF ss = <<>> THEN <<>>
    ELSE IF Head(ss) = <<>> THEN SelectNonEmpty(Tail(ss))
         ELSE <<Head(ss)>> \o SelectNonEmpty(Tail(ss))

RECURSIVE MapStrip(_)
MapStrip(ss) ==
    IF ss = <<>> THEN <<>> ELSE <<Strip(Head(ss))>> \o MapStrip(Tail(ss))

(***************************************************************************)
(* Security filter                                                         *)
(***************************************************************************)

\* The deny patterns the model's atoms can meet: r"sk-[a-zA-Z0-9]{20,}" and
\* r"token" (the other defaults match none of the atoms).
DEFAULT_DENY_PATTERNS == {"sk-", "token"}

\* pattern.search on the case-folded text: the pattern occurs in an atom
RegexSearch(p, t) ==
    \E i \in 1..Len(t) :
        <<p, Lower(t[i])>> \in {<<"sk-", "sk-x20.">>, <<"token", "token.">>}

\* SecurityFilter.filter_chunk: TRUE when the chunk is kept
FilterChunk(chunk) ==
    \A p \in DEFAULT_DENY_PATTERNS : ~RegexSearch(p, chunk.text)

MatchesDeny(t) == \E p \in DEFAULT_DENY_PATTERNS : RegexSearch(p, t)


(***************************************************************************)
(* Identifiers                                                             *)
(***************************************************************************)

\* A path is <<directory, file name>>; Path(file_path).stem drops ".md".
Stem(path) ==
    CASE path[2] = "a.md" -> "a"
      [] path[2] = "b.md" -> "b"
      [] path[2] = "MEMORY.md" -> "MEMORY"
      [] OTHER -> path[2]

\* The hashes are taken as injective on the string they are given: a digest
\* is the hashed string under the name of the hash.

\* Chunk._generate_doc_id: sha1 of f"{path}:{section}:{text}"
ChunkDocId(text, path, section) ==
    <<"sha1">> \o path \o <<":">> \o section \o <<":">> \o text

\* an id that leaves the section out of the hashed string
GenerateDocIdNoSection(text, path, section) ==
    <<"sha256">> \o text \o <<":">> \o path

\* HybridSearchDB.generate_doc_id: sha256 of f"{text}:{path}:{section}", the
\* first 16 hex digits
GenerateDocId(text, path, section) ==
    <<"sha256">> \o text \o <<":">> \o path \o <<":">> \o section

\* SQL NULL in an id column, Python None for an id
NULL == <<"NULL">>

(***************************************************************************)
(* Chunker                                                                 *)
(***************************************************************************)

\* DocumentChunker.chunk_by_paragraphs
ChunkByParagraphs(text) == SelectNonEmpty(MapStrip(SplitOn(text, NL2)))

EndsSentence(a) == a \in Atoms \ {"and", "essay"}

\* re.split(r"(?<=[.!?])\s+", text): cut at a whitespace run that follows
\* the end of a sentence, and drop the run
RECURSIVE SplitSentences(_, _)
SplitSentences(t, cur) ==
    IF t = <<>> THEN <<cur>>
    ELSE IF Head(t) = SP /\ cur # <<>> /\ EndsSentence(cur[Len(cur)])
         THEN <<cur>> \o SplitSentences(LStrip(t), <<>>)
         ELSE SplitSentences(Tail(t), Append(cur, Head(t)))

RECURSIVE PackSentences(_, _, _, _)
PackSentences(sentences, buf, chunks, max_length) ==
    IF sentences = <<>>
    THEN IF buf # <<>> THEN Append(chunks, Strip(buf)) ELSE chunks
    ELSE LET s == Head(sentences) IN
         IF TextLen(buf) + TextLen(s) + 1 <= max_length
         THEN PackSentences(Tail(sentences), buf \o s \o <<SP>>, chunks, max_length)
         ELSE PackSentences(Tail(sentences), s \o <<SP>>,
                            IF buf # <<>> THEN Append(chunks, Strip(buf)) ELSE chunks,
                            max_length)

\* DocumentChunker.chunk_by_sentences
ChunkBySentences(text, max_length) ==
    PackSentences(SplitSentences(text, <<>>), <<>>, <<>>, max_length)

\* Chunk.__init__
Chunk(text, source, path, section) ==
    [text |-> text, source |-> source, path |-> path, section |-> section,
     doc_id |-> ChunkDocId(text, path, section)]

\* the merge loop of chunk_document: <<merged text, j>>
RECURSIVE MergeRun(_, _, _, _)
MergeRun(paragraphs, merged, j, max_chars) ==
    IF j < Len(paragraphs) /\ TextLen(merged) + TextLen(paragraphs[j + 1]) + 2 <= max_chars
    THEN MergeRun(paragraphs, merged \o <<NL2>> \o paragraphs[j + 1], j + 1, max_chars)
    ELSE <<merged, j>>

\* sentence chunks labelled with their paragraph only
RECURSIVE SentenceChunksUnnumbered(_, _, _, _, _, _, _)
SentenceChunksUnnumbered(pieces, j, i, source, path, section, min_chars) ==
    IF j >= Len(pieces) THEN <<>>
    ELSE (IF TextLen(pieces[j + 1]) >= min_chars
          THEN <<Chunk(pieces[j + 1], source, path,
                       section \o <<"_sent_", ToString(i), "_", ToString(0)>>)>>
          ELSE <<>>)
         \o SentenceChunksUnnumbered(pieces, j + 1, i, source, path, section, min_chars)

\* the loop of chunk_document over the pieces of chunk_by_sentences
RECURSIVE SentenceChunks(_, _, _, _, _, _, _)
SentenceChunks(pieces, j, i, source, path, section, min_chars) ==
    IF j >= Len(pieces) THEN <<>>
    ELSE (IF TextLen(pieces[j + 1]) >= min_chars
          THEN <<Chunk(pieces[j + 1], source, path,
                       section \o <<"_sent_", ToString(i), "_", ToString(j)>>)>>
          ELSE <<>>)
         \o SentenceChunks(pieces, j + 1, i, source, path, section, min_chars)

\* a loop that goes on with the next paragraph after a merge, not with the
\* one behind the run
RECURSIVE ChunkLoopOverlapping(_, _, _, _, _, _, _)
ChunkLoopOverlapping(paragraphs, i, source, path, section, min_chars, max_chars) ==
    IF i >= Len(paragraphs) THEN <<>>
    ELSE LET paragraph == paragraphs[i + 1] IN
         IF min_chars <= TextLen(paragraph) /\ TextLen(paragraph) <= max_chars
         THEN <<Chunk(paragraph, source, path, section \o <<"_para_", ToString(i)>>)>>
              \o ChunkLoopOverlapping(paragraphs, i + 1, source, path, section,
                                      min_chars, max_chars)
         ELSE IF TextLen(paragraph) < min_chars
         THEN LET m == MergeRun(paragraphs, paragraph, i + 1, max_chars) IN
              (IF TextLen(m[1]) >= min_chars
               THEN <<Chunk(m[1], source, path,
                            section \o <<"_merged_", ToString(i), "_", ToString(m[2] - 1)>>)>>
               ELSE <<>>)
              \o ChunkLoopOverlapping(paragraphs, i + 1, source, path, section,
                                      min_chars, max_chars)
         ELSE SentenceChunks(ChunkBySentences(paragraph, max_chars), 0, i,
                             source, path, section, min_chars)
              \o ChunkLoopOverlapping(paragraphs, i + 1, source, path, section,
                                      min_chars, max_chars)

\* the while loop of chunk_document from paragraph i (0-based) on
RECURSIVE ChunkLoop(_, _, _, _, _, _, _)
ChunkLoop(paragraphs, i, source, path, section, min_chars, max_chars) ==
    IF i >= Len(paragraphs) THEN <<>>
    ELSE LET paragraph == paragraphs[i + 1] IN
         IF min_chars <= TextLen(paragraph) /\ TextLen(paragraph) <= max_chars
         THEN <<Chunk(paragraph, source, path, section \o <<"_para_", ToString(i)>>)>>
              \o ChunkLoop(paragraphs, i + 1, source, path, section, min_chars, max_chars)
         ELSE IF TextLen(paragraph) < min_chars
         THEN LET m == MergeRun(paragraphs, paragraph, i + 1, max_chars) IN
              (IF TextLen(m[1]) >= min_chars
               THEN <<Chunk(m[1], source, path,
                            section \o <<"_merged_", ToString(i), "_", ToString(m[2] - 1)>>)>>
               ELSE <<>>)
              \o ChunkLoop(paragraphs, m[2], source, path, section, min_chars, max_chars)
         ELSE SentenceChunks(ChunkBySentences(paragraph, max_chars), 0, i,
                             source, path, section, min_chars)
              \o ChunkLoop(paragraphs, i + 1, source, path, section, min_chars, max_chars)

\* DocumentChunker.chunk_document
ChunkDocument(text, source, path, section, min_chars, max_chars) ==
    ChunkLoop(ChunkByParagraphs(text), 0, source, path, section, min_chars, max_chars)

MAX_CHARS == 2000
MIN_CHARS == 100

(***************************************************************************)
(* Document store (SQLite: docs, docs_fts, doc_vectors)                    *)
(***************************************************************************)

\* A store is [docs, fts, vecs]: docs is keyed by id (PRIMARY KEY); fts and
\* vecs are the rows of docs_fts and doc_vectors in rowid order, the order
\* in which a SELECT without ORDER BY scans them.
EmptyDB == [docs |-> <<>>, fts |-> <<>>, vecs |-> <<>>]

Put(f, k, v) == [x \in DOMAIN f \cup {k} |-> IF x = k THEN v ELSE f[x]]

Restrict(f, S) == [x \in S |-> f[x]]

Range(seq) == {seq[i] : i \in 1..Len(seq)}

\* the ids that have a row in a table
RowIds(rows) == {rows[i].doc_id : i \in 1..Len(rows)}

\* HybridSearchDB.insert_document: the id it returns is DocIdOf(doc)
DocIdOf(doc) == GenerateDocId(doc.text, doc.path, doc.section)

\* an insert that leaves the full-text row the id already had
InsertDocumentDuplicating(db, doc) ==
    LET doc_id == DocIdOf(doc)
    IN [db EXCEPT
          !.docs = Put(@, doc_id, [source |-> doc.source, path |-> doc.path,
                                   section |-> doc.section, text |-> doc.text]),
          !.fts = Append(@, [doc_id |-> doc_id, content |-> doc.text])]

InsertDocument(db, doc) ==
    LET doc_id == DocIdOf(doc)
        keep(r) == r.doc_id # doc_id
    IN [db EXCEPT
          !.docs = Put(@, doc_id, [source |-> doc.source, path |-> doc.path,
                                   section |-> doc.section, text |-> doc.text]),
          !.fts = Append(SelectSeq(@, keep), [doc_id |-> doc_id, content |-> doc.text])]

\* HybridSearchDB.update_embedding: INSERT OR REPLACE deletes the row of the
\* id and appends the new one
UpdateEmbedding(db, doc_id, embedding) ==
    LET keep(r) == r.doc_id # doc_id
    IN [db EXCEPT !.vecs = Append(SelectSeq(@, keep),
                                  [doc_id |-> doc_id, embedding |-> embedding])]

\* a delete that leaves the vectors of the deleted documents
DeleteDocumentsByPathsKeepVectors(db, paths) ==
    LET doc_ids == {id \in DOMAIN db.docs : db.docs[id].path \in paths}
        keep(r) == r.doc_id \notin doc_ids
    IN [docs |-> Restrict(db.docs, DOMAIN db.docs \ doc_ids),
        fts |-> SelectSeq(db.fts, keep),
        vecs |-> db.vecs]

\* HybridSearchDB.delete_documents_by_paths
DeleteDocumentsByPaths(db, paths) ==
    LET doc_ids == {id \in DOMAIN db.docs : db.docs[id].path \in paths}
        keep(r) == r.doc_id \notin doc_ids
    IN [docs |-> Restrict(db.docs, DOMAIN db.docs \ doc_ids),
        fts |-> SelectSeq(db.fts, keep),
        vecs |-> SelectSeq(db.vecs, keep)]

\* HybridSearchDB.get_document_by_id: the row found (HasDocument), and the
\* record built from it
HasDocument(db, doc_id) == doc_id \in DOMAIN db.docs

GetDocumentById(db, doc_id) ==
    [id |-> doc_id, source |-> db.docs[doc_id].source,
     path |-> db.docs[doc_id].path, section |-> db.docs[doc_id].section,
     text |-> db.docs[doc_id].text]

(***************************************************************************)
(* Embedding service (DashScopeEmbedder)                                   *)
(***************************************************************************)

\* A vector is a tuple of integers.  The result of a request is
\* [ok, vec]: ok = FALSE stands for Python's None.
NoVector == [ok |-> FALSE, vec |-> <<>>]
Vector(v) == [ok |-> TRUE, vec |-> v]

\* DashScopeEmbedder._get_text_hash: the hex digest of sha256(text)
TextHash(text) == <<"sha256hex">> \o text

\* What the remote model and the local model answer for a text: each is a
\* function of the text, of its own dimension.
RemoteEmbedding(text) == <<TextLen(text) % 7, Len(text)>>
LocalEmbedding(text) == <<Len(text), TextLen(text) % 5, 1>>

\* hashlib.sha256(s).digest(): DIGEST_SIZE bytes, each a function of s
DIGEST_SIZE == 32

RECURSIVE Weight(_)
Weight(s) == IF s = <<>> THEN 0 ELSE AtomLen(Head(s)) * Len(s) + Weight(Tail(s))

Sha256Digest(s) == [i \in 0..(DIGEST_SIZE - 1) |-> (Weight(s) * (2 * i + 1) + 17 * i * i) % 256]

FLOOR_DIMS == 8

\* a degrade dimension without the floor
DegradeDimsNoFloor(degrade_dims) == degrade_dims

\* the dimension of a degrade vector
DegradeDims(degrade_dims) == IF degrade_dims > FLOOR_DIMS THEN degrade_dims ELSE FLOOR_DIMS

\* DashScopeEmbedder._make_degrade_embedding.  Component i is
\* (raw[i % len(raw)] / 255) * 2 - 1, here times 255; the division by the
\* norm scales every component by the same positive number.
MakeDegradeEmbedding(cfg, text_hash) ==
    IF ~cfg.enable_degrade_vector THEN NoVector
    ELSE LET dims == DegradeDims(cfg.degrade_dims)
             raw == Sha256Digest(text_hash)
         IN Vector([i \in 1..dims |-> 2 * raw[(i - 1) % DIGEST_SIZE] - 255])

\* The embedder's state st is [cache, dirty, local, file]: the in-memory
\* cache and its count of unsaved writes, _local_embedder ("None" before the
\* first use, "False" once it could not be created, "Ready" for an instance
\* whose model is not loaded yet, "Loaded"), and the cache file's content.
FLUSH_EVERY == 20

\* a _save_cache that flushes one write later
SaveCacheLate(st, force) ==
    IF ~force /\ st.dirty <= FLUSH_EVERY THEN st
    ELSE [st EXCEPT !.file = st.cache, !.dirty = 0]

\* DashScopeEmbedder._save_cache
SaveCache(st, force) ==
    IF ~force /\ st.dirty < FLUSH_EVERY THEN st
    ELSE [st EXCEPT !.file = st.cache, !.dirty = 0]

\* a _cache_embedding that counts the write and does not store the vector
CacheEmbeddingCountOnly(st, text_hash, embedding) ==
    SaveCache([st EXCEPT !.dirty = @ + 1], FALSE)

\* DashScopeEmbedder._cache_embedding
CacheEmbedding(st, text_hash, embedding) ==
    SaveCache([st EXCEPT !.cache = Put(@, text_hash, embedding), !.dirty = @ + 1], FALSE)

Ev(name, n) == [ev |-> name, n |-> n]

\* DashScopeEmbedder._load_local_embedder: [st, log]
LoadLocalEmbedder(st, env) ==
    IF st.local = "False" THEN [st |-> st, log |-> <<Ev("local_unavailable", 0)>>]
    ELSE IF st.local # "None" THEN [st |-> st, log |-> <<>>]
    ELSE IF env.local_init
         THEN [st |-> [st EXCEPT !.local = "Ready"], log |-> <<Ev("local_init_ok", 0)>>]
         ELSE [st |-> [st EXCEPT !.local = "False"], log |-> <<Ev("local_init_fail", 0)>>]

\* DashScopeEmbedder._get_local_embedding, with LocalEmbedder.get_embedding
\* and LocalEmbedder._load_model: [result, st, log].  The local embedder's
\* own cache is left out: it holds a text only after the local model has
\* embedded it, and then the embedder's cache holds it too.
GetLocalEmbedding(st, text, text_hash, env) ==
    LET l == LoadLocalEmbedder(st, env) IN
    IF l.st.local = "False" THEN [result |-> NoVector, st |-> l.st, log |-> l.log]
    ELSE IF l.st.local = "Ready" /\ ~env.local_load
    THEN [result |-> NoVector, st |-> l.st,
          log |-> l.log \o <<Ev("local_load_fail", 0)>>]
    ELSE LET loaded == [l.st EXCEPT !.local = "Loaded"]
             llog == l.log \o (IF l.st.local = "Ready"
                               THEN <<Ev("local_load_ok", 0)>> ELSE <<>>)
         IN IF env.local_encode
            THEN [result |-> Vector(LocalEmbedding(text)),
                  st |-> CacheEmbedding(loaded, text_hash, LocalEmbedding(text)),
                  log |-> llog \o <<Ev("local_ok", 0)>>]
            ELSE [result |-> NoVector, st |-> loaded,
                  log |-> llog \o <<Ev("local_fail", 0)>>]

\* a fallback chain that makes the degrade vector before it tries the local
\* model
FallbackDegradeFirst(st, cfg, text, text_hash, env) ==
    LET degrade == MakeDegradeEmbedding(cfg, text_hash)
        loc == IF cfg.enable_local_fallback
               THEN GetLocalEmbedding(st, text, text_hash, env)
               ELSE [result |-> NoVector, st |-> st, log |-> <<>>]
    IN IF degrade.ok
       THEN [result |-> degrade,
             st |-> CacheEmbedding(st, text_hash, degrade.vec),
             log |-> <<Ev("degrade", 0)>>]
       ELSE loc

\* the fallback chain of get_embedding, after the remote tier: the local
\* model if enabled, then the degrade vector
Fallback(st, cfg, text, text_hash, env) ==
    LET loc == IF cfg.enable_local_fallback
               THEN GetLocalEmbedding(st, text, text_hash, env)
               ELSE [result |-> NoVector, st |-> st, log |-> <<>>]
        degrade == MakeDegradeEmbedding(cfg, text_hash)
    IN IF loc.result.ok THEN loc
       ELSE IF degrade.ok
       THEN [result |-> degrade,
             st |-> CacheEmbedding(loc.st, text_hash, degrade.vec),
             log |-> loc.log \o <<Ev("degrade", 0)>>]
       ELSE [result |-> NoVector, st |-> loc.st, log |-> loc.log]

\* the retry loop of get_embedding from attempt on; env.remote[a] tells
\* whether attempt a succeeds
RECURSIVE RemoteLoop(_, _, _, _, _, _)
RemoteLoop(attempt, st, cfg, text, text_hash, env) ==
    IF attempt > cfg.max_retries
    THEN [result |-> NoVector, st |-> st, log |-> <<>>]
    ELSE IF env.remote[attempt]
    THEN [result |-> Vector(RemoteEmbedding(text)),
          st |-> CacheEmbedding(st, text_hash, RemoteEmbedding(text)),
          log |-> <<Ev("remote_ok", attempt)>>]
    ELSE IF attempt >= cfg.max_retries
    THEN LET f == Fallback(st, cfg, text, text_hash, env) IN
         [f EXCEPT !.log = <<Ev("remote_fail", attempt)>> \o @]
    ELSE LET r == RemoteLoop(attempt + 1, st, cfg, text, text_hash, env) IN
         [r EXCEPT !.log = <<Ev("remote_fail", attempt), Ev("sleep", attempt - 1)>> \o @]

\* a get_embedding that asks the remote API again for a text whose cached
\* vector is the degrade vector
GetEmbeddingUpgrading(st, cfg, text, env) ==
    LET text_hash == TextHash(text)
        degrade == MakeDegradeEmbedding(cfg, text_hash)
    IN IF /\ text_hash \in DOMAIN st.cache
          /\ ~(cfg.api_key /\ degrade.ok /\ st.cache[text_hash] = degrade.vec)
       THEN [result |-> Vector(st.cache[text_hash]), st |-> st,
             log |-> <<Ev("cache_hit", 0)>>]
       ELSE IF ~cfg.api_key
       THEN Fallback(st, cfg, text, text_hash, env)
       ELSE RemoteLoop(1, st, cfg, text, text_hash, env)

\* a get_embedding that does not look at the credential
GetEmbeddingKeyless(st, cfg, text, env) ==
    LET text_hash == TextHash(text) IN
    IF text_hash \in DOMAIN st.cache
    THEN [result |-> Vector(st.cache[text_hash]), st |-> st,
          log |-> <<Ev("cache_hit", 0)>>]
    ELSE RemoteLoop(1, st, cfg, text, text_hash, env)

\* a get_embedding that stores the vector again on a hit of the cache
GetEmbeddingRecaching(st, cfg, text, env) ==
    LET text_hash == TextHash(text) IN
    IF text_hash \in DOMAIN st.cache
    THEN [result |-> Vector(st.cache[text_hash]),
          st |-> CacheEmbedding(st, text_hash, st.cache[text_hash]),
          log |-> <<Ev("cache_hit", 0)>>]
    ELSE IF ~cfg.api_key
    THEN Fallback(st, cfg, text, text_hash, env)
    ELSE RemoteLoop(1, st, cfg, text, text_hash, env)

\* DashScopeEmbedder.get_embedding: [result, st, log]
GetEmbedding(st, cfg, text, env) ==
    LET text_hash == TextHash(text) IN
    IF text_hash \in DOMAIN st.cache
    THEN [result |-> Vector(st.cache[text_hash]), st |-> st,
          log |-> <<Ev("cache_hit", 0)>>]
    ELSE IF ~cfg.api_key
    THEN Fallback(st, cfg, text, text_hash, env)
    ELSE RemoteLoop(1, st, cfg, text, text_hash, env)

\* the loop of get_embeddings_batch; envs[i] is what the environment does
\* to the request for texts[i].  The pause after each request changes
\* nothing.
RECURSIVE BatchLoop(_, _, _, _)
BatchLoop(st, cfg, texts, envs) ==
    IF texts = <<>> THEN [results |-> <<>>, st |-> st, log |-> <<>>]
    ELSE LET r == GetEmbedding(st, cfg, Head(texts), Head(envs))
             rest == BatchLoop(r.st, cfg, Tail(texts), Tail(envs))
         IN [results |-> <<r.result>> \o rest.results, st |-> rest.st,
             log |-> r.log \o rest.log]

\* DashScopeEmbedder.get_embeddings_batch: [results, st, log]
GetEmbeddingsBatch(st, cfg, texts, envs) ==
    LET b == BatchLoop(st, cfg, texts, envs)
    IN [b EXCEPT !.st = SaveCache(@, TRUE),
                 !.log = @ \o <<Ev("batch_end", Len(texts))>>]

\* DashScopeEmbedder.__init__: a new instance on the cache file
NewEmbedder(file) == [cache |-> file, dirty |-> 0, local |-> "None", file |-> file]

(***************************************************************************)
(* Fused search and the vector index (HybridSearcher)                      *)
(***************************************************************************)

\* A flat index is [some, d, xb]: some = FALSE stands for faiss_index = None,
\* d is the dimension, xb the stored vectors in ordinal order.
NoIndex == [some |-> FALSE, d |-> 0, xb |-> <<>>]
IndexFlatL2(d) == [some |-> TRUE, d |-> d, xb |-> <<>>]
NTotal(ix) == Len(ix.xb)

RECURSIVE Dist2(_, _)
Dist2(a, b) ==
    IF a = <<>> THEN 0
    ELSE (Head(a) - Head(b)) * (Head(a) - Head(b)) + Dist2(Tail(a), Tail(b))

\* faiss IndexFlatL2.search: the ordinals of the k nearest vectors, by
\* ascending distance, the lower ordinal first among equally distant ones
Nearer(ix, q, a, b) ==
    \/ Dist2(ix.xb[a + 1], q) < Dist2(ix.xb[b + 1], q)
    \/ Dist2(ix.xb[a + 1], q) = Dist2(ix.xb[b + 1], q) /\ a < b

RECURSIVE NearestFirst(_, _, _)
NearestFirst(ix, q, S) ==
    IF S = {} THEN <<>>
    ELSE LET m == CHOOSE a \in S : \A b \in S \ {a} : Nearer(ix, q, a, b)
         IN <<m>> \o NearestFirst(ix, q, S \ {m})

FlatSearch(ix, q, k) == SubSeq(NearestFirst(ix, q, 0..(NTotal(ix) - 1)), 1, k)

Min(a, b) == IF a < b THEN a ELSE b

\* the permutations of a finite set, as sequences
Perms(S) ==
    {f \in [1..Cardinality(S) -> S] : \A i, j \in 1..Cardinality(S) : f[i] = f[j] => i = j}

\* docs_fts MATCH query: the rows whose content holds the query word
\* (unicode61 folds case)
MatchingRows(db, query) ==
    {i \in 1..Len(db.fts) :
        \E j \in 1..Len(db.fts[i].content) : Lower(db.fts[i].content[j]) = query}

\* HybridSearchDB.search_fts: the ids of the matching rows in the order the
\* engine ranks them (ranking, a permutation of the matching rows), cut to
\* limit
SearchFts(db, ranking, limit) ==
    [i \in 1..Min(limit, Len(ranking)) |-> db.fts[ranking[i]].doc_id]

\* {doc_id: i + 1 for i, doc_id in enumerate(ids)}: a later occurrence of an
\* id overwrites an earlier one
RankDict(ids) ==
    [d \in Range(ids) |->
        CHOOSE i \in 1..Len(ids) : ids[i] = d /\ \A j \in (i + 1)..Len(ids) : ids[j] # d]

\* Scores are fractions [n, d] with d > 0; the weights are counted in tenths
\* (w_fts = 6 stands for 0.6).
Frac(n, d) == [n |-> n, d |-> d]
FracAdd(a, b) == [n |-> a.n * b.d + b.n * a.d, d |-> a.d * b.d]
FracScale(w, a) == [n |-> w * a.n, d |-> a.d]
FracLess(a, b) == a.n * b.d < b.n * a.d
FracEq(a, b) == a.n * b.d = b.n * a.d

\* a reciprocal rank that counts ranks from 0
RrfScoreZeroBased(rank, k) == Frac(1, k + rank - 1)

\* HybridSearcher._rrf_score
RrfScore(rank, k) == Frac(1, k + rank)

\* a score that counts only the candidates both engines ranked
FusedScoreNeedsBoth(doc_id, fts_rank, vec_rank, cfg) ==
    IF doc_id \in DOMAIN fts_rank /\ doc_id \in DOMAIN vec_rank
    THEN FracAdd(FracScale(cfg.w_fts, RrfScore(fts_rank[doc_id], cfg.rrf_k)),
                 FracScale(cfg.w_vec, RrfScore(vec_rank[doc_id], cfg.rrf_k)))
    ELSE Frac(0, 1)

\* the score search gives a candidate
FusedScore(doc_id, fts_rank, vec_rank, cfg) ==
    LET s0 == Frac(0, 1)
        s1 == IF doc_id \in DOMAIN fts_rank
              THEN FracAdd(s0, FracScale(cfg.w_fts, RrfScore(fts_rank[doc_id], cfg.rrf_k)))
              ELSE s0
    IN IF doc_id \in DOMAIN vec_rank
       THEN FracAdd(s1, FracScale(cfg.w_vec, RrfScore(vec_rank[doc_id], cfg.rrf_k)))
       ELSE s1

\* x put into a list sorted by descending score, behind the entries that
\* score at least as much
InsertDesc(sorted, x) ==
    LET n == Cardinality({i \in 1..Len(sorted) : ~FracLess(sorted[i].score, x.score)})
    IN SubSeq(sorted, 1, n) \o <<x>> \o SubSeq(sorted, n + 1, Len(sorted))

\* x put into a list sorted by ascending score
InsertAsc(sorted, x) ==
    LET n == Cardinality({i \in 1..Len(sorted) : ~FracLess(x.score, sorted[i].score)})
    IN SubSeq(sorted, 1, n) \o <<x>> \o SubSeq(sorted, n + 1, Len(sorted))

RECURSIVE SortAscending(_, _)
SortAscending(seq, sorted) ==
    IF seq = <<>> THEN sorted ELSE SortAscending(Tail(seq), InsertAsc(sorted, Head(seq)))

RECURSIVE SortFrom(_, _)
SortFrom(seq, sorted) ==
    IF seq = <<>> THEN sorted ELSE SortFrom(Tail(seq), InsertDesc(sorted, Head(seq)))

\* a sort that leaves the lowest score first
SortByScoreAscending(combined) == SortAscending(combined, <<>>)

\* combined.sort(key=score, reverse=True): stable, descending
SortByScoreDescending(combined) == SortFrom(combined, <<>>)

\* the ids the index search maps back to documents
RECURSIVE VecDocIds(_, _)
VecDocIds(indices, id_to_doc_id) ==
    IF indices = <<>> THEN <<>>
    ELSE (IF ToString(Head(indices)) \in DOMAIN id_to_doc_id
          THEN <<id_to_doc_id[ToString(Head(indices))]>> ELSE <<>>)
         \o VecDocIds(Tail(indices), id_to_doc_id)

\* a loop that keeps a candidate whose document is not found, with an empty
\* record
RECURSIVE CombineKeepStale(_, _, _, _, _)
CombineKeepStale(order, fts_rank, vec_rank, db, cfg) ==
    IF order = <<>> THEN <<>>
    ELSE <<[doc |-> IF HasDocument(db, Head(order))
                    THEN GetDocumentById(db, Head(order))
                    ELSE [id |-> Head(order), source |-> "", path |-> <<>>,
                          section |-> <<>>, text |-> <<>>],
            score |-> FusedScore(Head(order), fts_rank, vec_rank, cfg)]>>
         \o CombineKeepStale(Tail(order), fts_rank, vec_rank, db, cfg)

\* the loop of search over all_doc_ids, taken in the order the set iterates
RECURSIVE Combine(_, _, _, _, _)
Combine(order, fts_rank, vec_rank, db, cfg) ==
    IF order = <<>> THEN <<>>
    ELSE (IF HasDocument(db, Head(order))
          THEN <<[doc |-> GetDocumentById(db, Head(order)),
                  score |-> FusedScore(Head(order), fts_rank, vec_rank, cfg)]>>
          ELSE <<>>)
         \o Combine(Tail(order), fts_rank, vec_rank, db, cfg)

\* HybridSearcher.search after the two retrievals: fusion, hydration, sort and
\* cut.  order is the iteration order of the set all_doc_ids.
Fuse(fts_doc_ids, vec_doc_ids, order, db, cfg, top_k) ==
    LET combined == Combine(order, RankDict(fts_doc_ids), RankDict(vec_doc_ids), db, cfg)
        sorted == SortByScoreDescending(combined)
    IN SubSeq(sorted, 1, Min(top_k, Len(sorted)))

\* the rows rebuild_index keeps: the non-empty vectors
ValidRows(db) ==
    LET nonEmpty(r) == Len(r.embedding) > 0 IN SelectSeq(db.vecs, nonEmpty)

\* {str(i): doc_id for i, doc_id in enumerate(doc_ids)}
IdMap(rows) ==
    [key \in {ToString(i) : i \in 0..(Len(rows) - 1)} |->
        rows[(CHOOSE i \in 0..(Len(rows) - 1) : ToString(i) = key) + 1].doc_id]

\* A searcher is [faiss_index, id_to_doc_id]; the files are
\* [exists, corrupt, data], corrupt for bytes faiss.read_index or json.load
\* cannot parse.
NoFile == [exists |-> FALSE, corrupt |-> FALSE, data |-> <<>>]
File(data) == [exists |-> TRUE, corrupt |-> FALSE, data |-> data]
CorruptFile == [exists |-> TRUE, corrupt |-> TRUE, data |-> <<>>]

NewSearcher == [faiss_index |-> NoIndex, id_to_doc_id |-> <<>>]

\* HybridSearcher._load_faiss_index: nothing is read unless both files exist;
\* an exception of either read leaves the searcher empty; what parses is
\* taken as it is
LoadFaissIndex(indexFile, idMapFile) ==
    IF indexFile.exists /\ idMapFile.exists
    THEN IF indexFile.corrupt \/ idMapFile.corrupt
         THEN NewSearcher
         ELSE [faiss_index |-> indexFile.data, id_to_doc_id |-> idMapFile.data]
    ELSE NewSearcher

\* a rebuild that adds the vectors to the index and the map it already has
RebuildIndexAppending(s, db, indexFile, idMapFile) ==
    LET rows == ValidRows(db)
        old == s.faiss_index.xb
        xb == old \o [i \in 1..Len(rows) |-> rows[i].embedding]
        map == [key \in {ToString(i) : i \in 0..(Len(xb) - 1)} |->
                   IF key \in DOMAIN s.id_to_doc_id THEN s.id_to_doc_id[key]
                   ELSE rows[(CHOOSE i \in 1..Len(rows) :
                                 ToString(Len(old) + i - 1) = key)].doc_id]
        index == [some |-> TRUE, d |-> IF rows = <<>> THEN 0 ELSE Len(rows[1].embedding),
                  xb |-> xb]
    IN [searcher |-> [faiss_index |-> index, id_to_doc_id |-> map],
        indexFile |-> File(index), idMapFile |-> File(map), raised |-> FALSE]

\* a rebuild that empties the searcher when the store has no valid vector
RebuildIndexClearing(s, db, indexFile, idMapFile) ==
    LET rows == ValidRows(db)
        same == [searcher |-> s, indexFile |-> indexFile, idMapFile |-> idMapFile,
                 raised |-> FALSE]
    IN IF db.vecs = <<>> \/ rows = <<>> THEN [same EXCEPT !.searcher = NewSearcher]
       ELSE LET dim == Len(rows[1].embedding) IN
            IF \E i \in 1..Len(rows) : Len(rows[i].embedding) # dim
            THEN [same EXCEPT !.searcher.faiss_index = IndexFlatL2(dim), !.raised = TRUE]
            ELSE LET index == [some |-> TRUE, d |-> dim,
                               xb |-> [i \in 1..Len(rows) |-> rows[i].embedding]]
                 IN [searcher |-> [faiss_index |-> index, id_to_doc_id |-> IdMap(rows)],
                     indexFile |-> File(index), idMapFile |-> File(IdMap(rows)),
                     raised |-> FALSE]

\* HybridSearcher.rebuild_index: [searcher, indexFile, idMapFile, raised].
\* np.vstack raises when the vectors differ in length; faiss_index is then
\* the new, empty index and nothing is saved.
RebuildIndex(s, db, indexFile, idMapFile) ==
    LET rows == ValidRows(db)
        same == [searcher |-> s, indexFile |-> indexFile, idMapFile |-> idMapFile,
                 raised |-> FALSE]
    IN IF db.vecs = <<>> \/ rows = <<>> THEN same
       ELSE LET dim == Len(rows[1].embedding) IN
            IF \E i \in 1..Len(rows) : Len(rows[i].embedding) # dim
            THEN [same EXCEPT !.searcher.faiss_index = IndexFlatL2(dim), !.raised = TRUE]
            ELSE LET index == [some |-> TRUE, d |-> dim,
                               xb |-> [i \in 1..Len(rows) |-> rows[i].embedding]]
                 IN [searcher |-> [faiss_index |-> index, id_to_doc_id |-> IdMap(rows)],
                     indexFile |-> File(index), idMapFile |-> File(IdMap(rows)),
                     raised |-> FALSE]

(***************************************************************************)
(* Ingestion (Ingestor, ingest_command, ingest_memory)                     *)
(***************************************************************************)

\* The disk gives each file [exists, content, mtime, readable]; the clock
\* and the mtimes count half seconds.  open() or read() of a file that is
\* not readable raises (no permission, bytes that are not UTF-8); os.stat
\* of it works.

\* Ingestor._file_signature: int() drops the fraction of st_mtime
FileSignature(disk, f) ==
    [mtime |-> disk[f].mtime \div 2, size |-> TextLen(disk[f].content)]

NoSince == [some |-> FALSE, ticks |-> 0]

\* a decision that asks the ledger also when a since window is given
ShouldProcessFileLedgerToo(ledger, disk, f, since, full_scan, now) ==
    IF full_scan THEN TRUE
    ELSE /\ since.some => disk[f].mtime > now - since.ticks
         /\ f \notin DOMAIN ledger \/ ledger[f] # FileSignature(disk, f)

\* Ingestor.should_process_file
ShouldProcessFile(ledger, disk, f, since, full_scan, now) ==
    IF full_scan THEN TRUE
    ELSE IF since.some THEN disk[f].mtime > now - since.ticks
    ELSE f \notin DOMAIN ledger \/ ledger[f] # FileSignature(disk, f)

RECURSIVE FilterChunks(_)
FilterChunks(chunks) ==
    IF chunks = <<>> THEN <<>>
    ELSE (IF FilterChunk(Head(chunks)) THEN <<Head(chunks)>> ELSE <<>>)
         \o FilterChunks(Tail(chunks))

\* Ingestor.process_file: the chunks of the file the filter accepts
ProcessFile(disk, f, source) ==
    FilterChunks(ChunkDocument(disk[f].content, source, f, <<Stem(f)>>, MIN_CHARS, MAX_CHARS))

\* source_dirs of Ingestor.ingest
SourceDir(src) ==
    CASE src = "notes" -> "notes/"
      [] src = "summary" -> "summary/"
      [] src = "logs" -> "logs/"
      [] OTHER -> "memory/"

\* the *.md files of the source directories, in listing order, each with its
\* source
RECURSIVE Targets(_, _, _)
Targets(sources, listing, disk) ==
    IF sources = <<>> THEN <<>>
    ELSE LET src == Head(sources)
             inDir(f) == f[1] = SourceDir(src) /\ disk[f].exists
             found == SelectSeq(listing, inDir)
         IN [i \in 1..Len(found) |->
                [f |-> found[i], source |-> IF src = "sessions_summary" THEN "summary" ELSE src]]
            \o Targets(Tail(sources), listing, disk)

\* the scan loop of Ingestor.ingest over the files found.  gone holds the
\* files that were listed and are no more there when os.stat is called:
\* _file_signature raises and the loop ends there (raised).  seen holds the
\* files the loop came to, attempted those handed to process_file, failed
\* those it could not read.
RECURSIVE ScanLoop(_, _, _, _, _, _, _, _)
ScanLoop(targets, acc, ledger, disk, since, full_scan, now, gone) ==
    IF targets = <<>> THEN acc
    ELSE LET f == Head(targets).f
             noted == Put(acc.next_ledger, f, FileSignature(disk, f))
             next ==
                IF ShouldProcessFile(ledger, disk, f, since, full_scan, now)
                THEN IF disk[f].readable
                     THEN [acc EXCEPT
                             !.next_ledger = noted,
                             !.processed_files = Append(@, f),
                             !.chunks = @ \o ProcessFile(disk, f, Head(targets).source),
                             !.attempted = @ \cup {f}]
                     ELSE [acc EXCEPT !.next_ledger = noted,
                                      !.attempted = @ \cup {f},
                                      !.failed = @ \cup {f}]
                ELSE [acc EXCEPT !.next_ledger = noted]
         IN IF f \in gone THEN [acc EXCEPT !.raised = TRUE, !.seen = @ \cup {f}]
            ELSE ScanLoop(Tail(targets), [next EXCEPT !.seen = @ \cup {f}],
                          ledger, disk, since, full_scan, now, gone)

\* an ingest that starts its new ledger empty instead of from the loaded one
IngestForgetful(ledger, disk, sources, listing, since, full_scan, now, gone) ==
    LET targets == Targets(sources, listing, disk)
    IN ScanLoop(targets, [next_ledger |-> <<>>, processed_files |-> <<>>,
                          chunks |-> <<>>, seen |-> {}, attempted |-> {},
                          failed |-> {}, raised |-> FALSE],
                ledger, disk, since, full_scan, now, gone)

\* Ingestor.ingest: [next_ledger, processed_files, chunks, seen, attempted,
\* failed, raised]; next_ledger is what _save_ledger writes, after the entries of
\* vanished files are dropped.  When raised, nothing was saved or returned.
Ingest(ledger, disk, sources, listing, since, full_scan, now, gone) ==
    LET targets == Targets(sources, listing, disk)
        scanned == ScanLoop(targets, [next_ledger |-> ledger, processed_files |-> <<>>,
                                      chunks |-> <<>>, seen |-> {}, attempted |-> {},
                                      failed |-> {}, raised |-> FALSE],
                            ledger, disk, since, full_scan, now, gone)
        kept == {p \in DOMAIN scanned.next_ledger :
                    p \in scanned.seen \/ (disk[p].exists /\ p \notin gone)}
    IN IF scanned.raised
       THEN [scanned EXCEPT !.next_ledger = ledger, !.processed_files = <<>>,
                            !.chunks = <<>>]
       ELSE [scanned EXCEPT !.next_ledger = Restrict(@, kept)]

\* the body of the loop of ingest_command for one chunk: insert_document,
\* then update_embedding when the embedder returned a vector
StoreChunkOnlyEmbedded(store, doc, embedding) ==
    IF embedding.ok
    THEN UpdateEmbedding(InsertDocument(store, doc),
                         GenerateDocId(doc.text, doc.path, doc.section), embedding.vec)
    ELSE store

StoreChunk(store, doc, embedding) ==
    LET stored == InsertDocument(store, doc) IN
    IF embedding.ok
    THEN UpdateEmbedding(stored, GenerateDocId(doc.text, doc.path, doc.section), embedding.vec)
    ELSE stored

\* ingest_memory.py.  MEMORY.md is a sequence of lines [kind, body]: "h2" for
\* a line that starts with "## " (body: the header), "skip" for a title or a
\* deeper header, "text" for any other line (body: its atoms).
MEMORY_FILE == <<"workspace/", "MEMORY.md">>
SHORT_SECTION == 50

Section(header, text) ==
    IF Strip(text) # <<>> THEN <<[header |-> header, text |-> Strip(text)]>> ELSE <<>>

RECURSIVE SectionsFrom(_, _, _)
SectionsFrom(lines, current_header, current_section) ==
    IF lines = <<>> THEN Section(current_header, current_section)
    ELSE IF Head(lines).kind = "h2"
    THEN Section(current_header, current_section) \o SectionsFrom(Tail(lines), Head(lines).body, <<>>)
    ELSE IF Head(lines).kind = "skip"
    THEN SectionsFrom(Tail(lines), current_header, current_section)
    ELSE SectionsFrom(Tail(lines), current_header, current_section \o Head(lines).body \o <<NL>>)

\* chunk_text_by_sections
ChunkTextBySections(lines) == SectionsFrom(lines, "Root", <<>>)

\* the loop of ingest_memory_file.  The full-text row is inserted with the id
\* as its rowid: sqlite takes an id of decimal digits only (numeric holds the
\* headers of the sections with such an id) and raises on any other, which
\* ends the run with the section's rows not committed.  embedded holds the
\* headers of the sections the remote model answers for.
RECURSIVE MemoryLoop(_, _, _, _)
MemoryLoop(store, sections, numeric, embedded) ==
    IF sections = <<>> THEN store
    ELSE LET s == Head(sections)
             doc_id == GenerateDocId(s.text, MEMORY_FILE, <<s.header>>)
             other(r) == ~(r.doc_id = NULL /\ r.content = s.text)
             rows == [store EXCEPT
                        !.docs = Put(@, doc_id, [source |-> "memory", path |-> MEMORY_FILE,
                                                 section |-> <<s.header>>, text |-> s.text]),
                        !.fts = Append(SelectSeq(@, other),
                                       [doc_id |-> NULL, content |-> s.text])]
             committed == IF s.header \in embedded
                          THEN UpdateEmbedding(rows, doc_id, RemoteEmbedding(s.text))
                          ELSE rows
         IN IF TextLen(s.text) < SHORT_SECTION
            THEN MemoryLoop(store, Tail(sections), numeric, embedded)
            ELSE IF s.header \notin numeric THEN store
            ELSE MemoryLoop(committed, Tail(sections), numeric, embedded)

IngestMemoryFile(store, lines, numeric, embedded) ==
    MemoryLoop(store, ChunkTextBySections(lines), numeric, embedded)

(***************************************************************************)
(* State                                                                   *)
(***************************************************************************)

VARIABLES
    emb,        \* the embedder instance of the running process: [cache, dirty, local]
    cacheFile,  \* embedding_cache.json
    ecfg,       \* the embedder's configuration (credential, environment)
    req,        \* the last get_embedding request: its text, result and event log
    epoch,      \* the number of the running process
    degradeSeen, \* history: the first degrade vector returned for each text
    db,         \* the document store
    searcher,   \* the searcher instance: [faiss_index, id_to_doc_id]
    indexFile,  \* faiss.index
    idMapFile,  \* id_map.json
    scfg,       \* the search configuration
    out,        \* what the last search or rebuild returned
    disk,       \* the files of the source directories and MEMORY.md
    clock,      \* the time, in half seconds
    ledgerFile, \* ingest_ledger.json
    run,        \* the running ingest command: its position and what it holds
    hist,       \* history: what the last two scans did to each file
    calc,       \* the last call of a pure function: its arguments and its value
    procs       \* the Ingestor instances of ingest commands that overlap in time

embVars == <<emb, cacheFile, ecfg, req, epoch, degradeSeen>>
srchVars == <<searcher, indexFile, idMapFile, scfg, out>>

ingVars == <<disk, clock, ledgerFile, run, hist>>

vars == <<embVars, db, srchVars, ingVars, calc, procs>>

\* bounds of the model
MaxRetries == 2
MaxEpoch == 2

\* the texts requests are made for
Texts == {<<"fox.">>, <<"note.">>}

DimsChoices == {4, 9, 34}

EmbedConfigs ==
    [api_key : BOOLEAN, enable_local_fallback : BOOLEAN,
     enable_degrade_vector : BOOLEAN, degrade_dims : DimsChoices,
     max_retries : 0..MaxRetries]

\* what the environment does to one request: the outcome of each remote
\* attempt and of each step of the local tier (an attempt after the first
\* successful one is never made, so only the first success is chosen; of the
\* local steps, one is reached only when the steps before it succeed)
Envs(cfg) ==
    {[remote |-> [a \in 1..cfg.max_retries |-> a >= k], local_init |-> l >= 1,
      local_load |-> l >= 2, local_encode |-> l >= 3] :
        k \in 1..(cfg.max_retries + 1), l \in 0..3}

Bind(e, file) == [cache |-> e.cache, dirty |-> e.dirty, local |-> e.local, file |-> file]
Unbind(st) == [cache |-> st.cache, dirty |-> st.dirty, local |-> st.local]

NoRequest == [made |-> FALSE, text |-> <<>>, result |-> NoVector, log |-> <<>>, epoch |-> 0]

EmbIdle ==
    /\ emb = Unbind(NewEmbedder(<<>>))
    /\ cacheFile = <<>>
    /\ req = NoRequest
    /\ epoch = 1
    /\ degradeSeen = <<>>

NotesA == <<"notes/", "a.md">>
NotesB == <<"notes/", "b.md">>
Files == {NotesA, NotesB}
Listing == <<NotesA, NotesB>>

NoRun == [pc |-> "idle", processed_files |-> <<>>, documents |-> <<>>, i |-> 0,
          skipped |-> {}]
\* what a scan did to a file: attempted tells that process_file was called
\* on it; read is "no" unless the read failed, then "updated" if the scan
\* changed the file's ledger entry and "kept" if it left it
NoScan == [f \in Files |-> [exists |-> FALSE, processed |-> FALSE, mtime |-> 0, size |-> 0,
                            seen |-> FALSE, attempted |-> FALSE, read |-> "no"]]
\* produced holds, for each file, the signatures it had when a scan handed
\* its chunks on
NoHist == [runs |-> 0, incremental |-> FALSE, aborted |-> FALSE, prev |-> NoScan,
           cur |-> NoScan, produced |-> [f \in Files |-> {}]]

IngIdle ==
    /\ disk = [f \in Files |-> [exists |-> FALSE, content |-> <<>>, mtime |-> 0,
                               readable |-> TRUE]]
    /\ clock = 0
    /\ ledgerFile = <<>>
    /\ run = NoRun
    /\ hist = NoHist

\* no pure function has been called
NoCalc == [kind |-> "none"]

CalcIdle == calc = NoCalc

\* no Ingestor instance exists
NoProcs == [kind |-> "none"]

ProcsIdle == procs = NoProcs

\* out.embedding tells what became of the query embedding: "none" when
\* get_embedding was not called, "failed" when it returned None, else "ok";
\* out.nth counts the rebuilds run one after the other, up to the second
NoOut == [kind |-> "none", raised |-> FALSE, nth |-> 0, query |-> "", top_k |-> 0,
          embedding |-> "none", fts_doc_ids |-> <<>>, vec_doc_ids |-> <<>>,
          results |-> <<>>]

DefaultSearchConfig == [topk_fts |-> 50, topk_vec |-> 50, w_fts |-> 6, w_vec |-> 4, rrf_k |-> 60]

SrchIdle ==
    /\ searcher = NewSearcher
    /\ indexFile = NoFile
    /\ idMapFile = NoFile
    /\ scfg = DefaultSearchConfig
    /\ out = NoOut

InitEmbed ==
    /\ EmbIdle
    /\ CalcIdle
    /\ ProcsIdle
    /\ ecfg \in EmbedConfigs
    /\ db = EmptyDB
    /\ SrchIdle
    /\ IngIdle

IsDegrade(r) == r.log # <<>> /\ r.log[Len(r.log)].ev = "degrade"

\* one call of get_embedding(text)
Request(text, env) ==
    LET r == GetEmbedding(Bind(emb, cacheFile), ecfg, text, env)
        q == [made |-> TRUE, text |-> text, result |-> r.result, log |-> r.log,
              epoch |-> epoch]
    IN /\ emb' = Unbind(r.st)
       /\ cacheFile' = r.st.file
       /\ req' = q
       /\ degradeSeen' = IF IsDegrade(q) /\ text \notin DOMAIN degradeSeen
                         THEN Put(degradeSeen, text, [vec |-> r.result.vec, epoch |-> epoch])
                         ELSE degradeSeen
       /\ UNCHANGED <<calc, procs, ecfg, epoch, db, srchVars, ingVars>>

\* the process ends and a new one starts: a new embedder on the cache file
Restart ==
    /\ epoch < MaxEpoch
    /\ epoch' = epoch + 1
    /\ emb' = Unbind(NewEmbedder(cacheFile))
    /\ UNCHANGED <<calc, procs, cacheFile, ecfg, req, degradeSeen, db, srchVars, ingVars>>

NextEmbed ==
    \/ \E text \in Texts, env \in Envs(ecfg) : Request(text, env)
    \/ Restart

SpecEmbed == InitEmbed /\ [][NextEmbed]_vars

(***************************************************************************)
(* The searcher over a store                                               *)
(***************************************************************************)

MaxTopK == 3

DocA == [text |-> <<"fox.">>, source |-> "notes", path |-> NotesA,
         section |-> <<"a", "_para_", "0">>]
DocB == [text |-> <<"fox.", SP, "and">>, source |-> "notes", path |-> NotesA,
         section |-> <<"a", "_para_", "1">>]
DocC == [text |-> <<"note.", SP, "Token.">>, source |-> "notes", path |-> NotesB,
         section |-> <<"b", "_para_", "0">>]
\* what the embedder gave for each chunk when it was stored: nothing, or a
\* vector (the zero-length one and one of another dimension among them)
StoredEmbeddings(doc) ==
    IF doc = DocA THEN {NoVector, Vector(<<>>), Vector(<<3, 2>>)}
    ELSE IF doc = DocB THEN {NoVector, Vector(<<3, 1>>)}
    ELSE {NoVector, Vector(<<5, 1>>), Vector(<<1, 1, 1>>)}

Queries == {"fox.", "note."}

SearchConfigs ==
    {DefaultSearchConfig,
     [topk_fts |-> 2, topk_vec |-> 1, w_fts |-> 5, w_vec |-> 5, rrf_k |-> 0]}

\* the embedder of the searcher: a credential, one attempt, no fallback
SearchEmbedConfig ==
    [api_key |-> TRUE, enable_local_fallback |-> FALSE, enable_degrade_vector |-> FALSE,
     degrade_dims |-> 4, max_retries |-> 1]

SearchEnvs == {env \in Envs(SearchEmbedConfig) : ~env.local_init}

\* the store an ingest run of the three chunks leaves
InitSearch ==
    /\ EmbIdle
    /\ CalcIdle
    /\ ProcsIdle
    /\ ecfg = SearchEmbedConfig
    /\ \E eA \in StoredEmbeddings(DocA), eB \in StoredEmbeddings(DocB),
          eC \in StoredEmbeddings(DocC) :
          db = StoreChunk(StoreChunk(StoreChunk(EmptyDB, DocA, eA), DocB, eB), DocC, eC)
    /\ searcher = NewSearcher
    /\ indexFile = NoFile
    /\ idMapFile = NoFile
    /\ scfg \in SearchConfigs
    /\ out = NoOut
    /\ IngIdle

\* a delete that takes the id map of the searcher along
StoreDeleteReindexing(paths) ==
    /\ db' = DeleteDocumentsByPaths(db, paths)
    /\ out' = NoOut
    /\ searcher' = [searcher EXCEPT !.id_to_doc_id = <<>>]
    /\ UNCHANGED <<calc, procs, embVars, indexFile, idMapFile, scfg, ingVars>>

\* delete_documents_by_paths(paths) on the store
StoreDelete(paths) ==
    /\ db' = DeleteDocumentsByPaths(db, paths)
    /\ out' = NoOut
    /\ UNCHANGED <<calc, procs, embVars, searcher, indexFile, idMapFile, scfg, ingVars>>

\* HybridSearcher.rebuild_index
Rebuild ==
    LET r == RebuildIndex(searcher, db, indexFile, idMapFile) IN
    /\ searcher' = r.searcher
    /\ indexFile' = r.indexFile
    /\ idMapFile' = r.idMapFile
    /\ out' = [NoOut EXCEPT !.kind = "rebuild", !.raised = r.raised,
                            !.nth = IF out.kind = "rebuild" THEN 2 ELSE 1]
    /\ UNCHANGED <<calc, procs, embVars, db, scfg, ingVars>>

\* HybridSearcher.__init__ of a new process
Load ==
    /\ searcher' = LoadFaissIndex(indexFile, idMapFile)
    /\ emb' = Unbind(NewEmbedder(cacheFile))
    /\ out' = [NoOut EXCEPT !.kind = "load"]
    /\ UNCHANGED <<calc, procs, cacheFile, ecfg, req, epoch, degradeSeen, db, indexFile, idMapFile,
                   scfg, ingVars>>

\* HybridSearcher.search(query, top_k).  faiss raises when the query vector's
\* dimension is not the index's.
Search(query, top_k, env) ==
    \E ranking \in Perms(MatchingRows(db, query)) :
        LET ix == searcher.faiss_index
            useVec == ix.some /\ NTotal(ix) > 0
            st == Bind(emb, cacheFile)
            r == IF useVec THEN GetEmbedding(st, ecfg, <<query>>, env)
                 ELSE [result |-> NoVector, st |-> st, log |-> <<>>]
            raised == useVec /\ r.result.ok /\ Len(r.result.vec) # ix.d
            embedding == IF ~useVec THEN "none"
                         ELSE IF r.result.ok THEN "ok" ELSE "failed"
            fts_doc_ids == SearchFts(db, ranking, scfg.topk_fts)
            vec_doc_ids ==
                IF useVec /\ r.result.ok /\ ~raised
                THEN VecDocIds(FlatSearch(ix, r.result.vec, Min(scfg.topk_vec, NTotal(ix))),
                               searcher.id_to_doc_id)
                ELSE <<>>
        IN /\ emb' = Unbind(r.st)
           /\ cacheFile' = r.st.file
           /\ IF raised
              THEN out' = [NoOut EXCEPT !.kind = "search", !.raised = TRUE,
                                        !.query = query, !.top_k = top_k,
                                        !.embedding = embedding]
              ELSE \E order \in Perms(Range(fts_doc_ids) \cup Range(vec_doc_ids)) :
                      out' = [kind |-> "search", raised |-> FALSE, nth |-> 0,
                              query |-> query,
                              top_k |-> top_k, embedding |-> embedding,
                              fts_doc_ids |-> fts_doc_ids,
                              vec_doc_ids |-> vec_doc_ids,
                              results |-> Fuse(fts_doc_ids, vec_doc_ids, order, db, scfg, top_k)]
           /\ UNCHANGED <<calc, procs, ecfg, req, epoch, degradeSeen, db, searcher, indexFile,
                          idMapFile, scfg, ingVars>>

NextSearch ==
    \/ \E paths \in SUBSET {NotesA, NotesB} \ {{}} : StoreDelete(paths)
    \/ Rebuild
    \/ Load
    \/ \E query \in Queries, top_k \in 0..MaxTopK, env \in SearchEnvs :
          Search(query, top_k, env)

SpecSearch == InitSearch /\ [][NextSearch]_vars

\* insert_document(doc), and update_embedding when there is a vector, on the
\* store
StoreInsert(doc, embedding) ==
    /\ db' = StoreChunk(db, doc, embedding)
    /\ out' = NoOut
    /\ UNCHANGED <<calc, procs, embVars, searcher, indexFile, idMapFile, scfg, ingVars>>

\* the store after an ingest run that got a vector for each of the three
\* chunks, and no index yet
InitFrame ==
    /\ EmbIdle
    /\ CalcIdle
    /\ ProcsIdle
    /\ ecfg = SearchEmbedConfig
    /\ db = StoreChunk(StoreChunk(StoreChunk(EmptyDB, DocA, Vector(<<3, 2>>)),
                                  DocB, Vector(<<3, 1>>)), DocC, Vector(<<5, 1>>))
    /\ searcher = NewSearcher
    /\ indexFile = NoFile
    /\ idMapFile = NoFile
    /\ scfg = DefaultSearchConfig
    /\ out = NoOut
    /\ IngIdle

\* rebuilds, loads and searches while chunks are stored and deleted
NextFrame ==
    \/ \E paths \in {{NotesA}, {NotesB}} : StoreDelete(paths)
    \/ \E doc \in {DocA, DocC} : \E e \in StoredEmbeddings(doc) \ {Vector(<<>>)} :
          StoreInsert(doc, e)
    \/ Rebuild
    \/ Load
    \/ \E env \in SearchEnvs : Search("fox.", MaxTopK, env)

SpecFrame == InitFrame /\ [][NextFrame]_vars

\* The places where a kill can end rebuild_index inside _save_faiss_index:
\* while faiss.write_index writes, between the two writes, and after
\* open(id_map_path, "w") has truncated the id map.
KillPoints == {"index_partial", "before_map", "map_truncated"}

\* rebuild_index killed inside _save_faiss_index, then HybridSearcher.__init__
\* of the next process
RebuildKilled(point) ==
    LET r == RebuildIndex(searcher, db, indexFile, idMapFile)
        ixf == IF point = "index_partial" THEN CorruptFile ELSE r.indexFile
        mapf == IF point = "map_truncated" THEN CorruptFile ELSE idMapFile
    IN /\ ~r.raised
       /\ ValidRows(db) # <<>>
       /\ indexFile' = ixf
       /\ idMapFile' = mapf
       /\ searcher' = LoadFaissIndex(ixf, mapf)
       /\ emb' = Unbind(NewEmbedder(cacheFile))
       /\ out' = [NoOut EXCEPT !.kind = "load"]
       /\ UNCHANGED <<calc, procs, cacheFile, ecfg, req, epoch, degradeSeen, db, scfg, ingVars>>

NextLoad ==
    \/ \E paths \in SUBSET {NotesA, NotesB} \ {{}} : StoreDelete(paths)
    \/ Rebuild
    \/ \E point \in KillPoints : RebuildKilled(point)
    \/ Load
    \/ \E query \in Queries, env \in SearchEnvs : Search(query, MaxTopK, env)

SpecLoad == InitSearch /\ [][NextLoad]_vars

(***************************************************************************)
(* The ingest command over the files                                       *)
(***************************************************************************)

MaxClock == 2
MaxRuns == 2

\* what a.md and b.md can hold: two texts of one size for a.md, a text the
\* filter denies for b.md, alone or after a paragraph it accepts
Contents(f) ==
    IF f = NotesA THEN {<<"fox.", SP, "and">>, <<"and", SP, "fox.">>}
    ELSE {<<"Token.">>, <<"fox.", NL2, "Token.">>}

MemoryLines ==
    <<[kind |-> "skip", body |-> <<>>],
      [kind |-> "h2", body |-> "Ops"], [kind |-> "text", body |-> <<"sk-X20.">>],
      [kind |-> "h2", body |-> "Short"], [kind |-> "text", body |-> <<"note.">>],
      [kind |-> "h2", body |-> "Other"], [kind |-> "text", body |-> <<"fox.">>],
      [kind |-> "text", body |-> <<"and">>]>>

Sinces == {NoSince, [some |-> TRUE, ticks |-> 1]}

\* the embedder of the ingest command: a credential, one attempt, no fallback
IngestEmbedConfig ==
    [api_key |-> TRUE, enable_local_fallback |-> FALSE, enable_degrade_vector |-> FALSE,
     degrade_dims |-> 4, max_retries |-> 1]

IngestEnvs == {env \in Envs(IngestEmbedConfig) : ~env.local_init}

InitIngest ==
    /\ EmbIdle
    /\ CalcIdle
    /\ ProcsIdle
    /\ ecfg = IngestEmbedConfig
    /\ db = EmptyDB
    /\ SrchIdle
    /\ \E ca \in Contents(NotesA), cb \in Contents(NotesB) :
          disk = [f \in Files |-> [exists |-> TRUE, mtime |-> 0, readable |-> TRUE,
                                   content |-> IF f = NotesA THEN ca ELSE cb]]
    /\ clock = 0
    /\ ledgerFile = <<>>
    /\ run = NoRun
    /\ hist = NoHist

\* time passes and files are edited between two runs of the command
Tick ==
    /\ run.pc # "scanned" /\ run.pc # "storing"
    /\ clock < MaxClock
    /\ clock' = clock + 1
    /\ UNCHANGED <<calc, procs, embVars, db, srchVars, disk, ledgerFile, run, hist>>

\* an editor writes a file
WriteFile(f, content) ==
    /\ run.pc # "scanned" /\ run.pc # "storing"
    /\ disk[f] # [exists |-> TRUE, content |-> content, mtime |-> clock,
                  readable |-> TRUE]
    /\ disk' = [disk EXCEPT ![f] = [exists |-> TRUE, content |-> content, mtime |-> clock,
                                    readable |-> TRUE]]
    /\ UNCHANGED <<calc, procs, embVars, db, srchVars, clock, ledgerFile, run, hist>>

RemoveFile(f) ==
    /\ run.pc # "scanned" /\ run.pc # "storing"
    /\ disk[f].exists
    /\ disk' = [disk EXCEPT ![f] = [exists |-> FALSE, content |-> <<>>, mtime |-> 0,
                                    readable |-> TRUE]]
    /\ UNCHANGED <<calc, procs, embVars, db, srchVars, clock, ledgerFile, run, hist>>

\* the ledger holds the signature sig for f
HasEntry(ledger, f, sig) == f \in DOMAIN ledger /\ ledger[f] = sig

\* f has the same entry, or none, in both ledgers
SameEntry(a, b, f) ==
    IF f \in DOMAIN a THEN HasEntry(b, f, a[f]) ELSE f \notin DOMAIN b

\* ingest_command up to the return of ingest_sources: the Ingestor loads the
\* ledger, the embedder loads its cache, the files are scanned and the
\* ledger is saved.  An exception of ingest ends the command.
IngestScan(sources, since, full_scan, gone) ==
    LET r == Ingest(ledgerFile, disk, sources, Listing, since, full_scan, clock, gone)
        done == [f \in Files |->
                    [exists |-> disk[f].exists /\ f \notin gone,
                     processed |-> f \in Range(r.processed_files),
                     mtime |-> disk[f].mtime, size |-> TextLen(disk[f].content),
                     seen |-> f \in r.seen,
                     attempted |-> f \in r.attempted,
                     read |-> IF f \notin r.failed THEN "no"
                              ELSE IF SameEntry(r.next_ledger, ledgerFile, f)
                              THEN "kept" ELSE "updated"]]
    IN /\ run.pc \in {"idle", "crashed"}
       /\ hist.runs < MaxRuns
       /\ gone \subseteq {f \in Files : disk[f].exists}
       /\ ledgerFile' = r.next_ledger
       /\ emb' = Unbind(NewEmbedder(cacheFile))
       /\ run' = [pc |-> IF r.raised THEN "crashed" ELSE "scanned",
                  processed_files |-> r.processed_files,
                  documents |-> r.chunks, i |-> 1, skipped |-> {}]
       /\ disk' = [f \in Files |->
                     IF f \in gone
                     THEN [exists |-> FALSE, content |-> <<>>, mtime |-> 0, readable |-> TRUE]
                     ELSE disk[f]]
       /\ hist' = [runs |-> hist.runs + 1, incremental |-> ~full_scan /\ ~since.some,
                   aborted |-> r.raised, prev |-> hist.cur, cur |-> done,
                   produced |-> [f \in Files |->
                                   IF f \in Range(r.processed_files)
                                   THEN hist.produced[f] \cup {FileSignature(disk, f)}
                                   ELSE hist.produced[f]]]
       /\ UNCHANGED <<calc, procs, cacheFile, ecfg, req, epoch, degradeSeen, db, srchVars, clock>>

\* a delete step that also takes the documents of the files that are gone
IngestDeleteGone ==
    /\ run.pc = "scanned"
    /\ db' = DeleteDocumentsByPaths(db, Range(run.processed_files)
                                           \cup {f \in Files : ~disk[f].exists})
    /\ run' = [run EXCEPT !.pc = "storing"]
    /\ UNCHANGED <<calc, procs, embVars, srchVars, disk, clock, ledgerFile, hist>>

\* delete_documents_by_paths(processed_files)
IngestDelete ==
    /\ run.pc = "scanned"
    /\ db' = IF run.processed_files # <<>>
             THEN DeleteDocumentsByPaths(db, Range(run.processed_files))
             ELSE db
    /\ run' = [run EXCEPT !.pc = "storing"]
    /\ UNCHANGED <<calc, procs, embVars, srchVars, disk, clock, ledgerFile, hist>>

\* one turn of the loop over the chunks
IngestChunk(env) ==
    /\ run.pc = "storing"
    /\ run.i <= Len(run.documents)
    /\ LET doc == run.documents[run.i]
           r == GetEmbedding(Bind(emb, cacheFile), ecfg, doc.text, env)
       IN /\ db' = StoreChunk(db, doc, r.result)
          /\ emb' = Unbind(r.st)
          /\ cacheFile' = r.st.file
          /\ run' = [run EXCEPT !.i = @ + 1,
                                !.skipped = IF r.result.ok THEN @ ELSE @ \cup {DocIdOf(doc)}]
    /\ UNCHANGED <<calc, procs, ecfg, req, epoch, degradeSeen, srchVars, disk, clock, ledgerFile, hist>>

\* the loop is over and the command returns
IngestDone ==
    /\ run.pc = "storing"
    /\ run.i > Len(run.documents)
    /\ run' = [run EXCEPT !.pc = "idle"]
    /\ UNCHANGED <<calc, procs, embVars, db, srchVars, disk, clock, ledgerFile, hist>>

\* the process dies in the middle of the command
Crash ==
    /\ run.pc \in {"scanned", "storing"}
    /\ run' = [run EXCEPT !.pc = "crashed"]
    /\ UNCHANGED <<calc, procs, embVars, db, srchVars, disk, clock, ledgerFile, hist>>

\* ingest_memory.py run on MEMORY.md
IngestMemory(numeric, embedded) ==
    /\ run.pc \in {"idle", "crashed"}
    /\ db' = IngestMemoryFile(db, MemoryLines, numeric, embedded)
    /\ db' # db
    /\ UNCHANGED <<calc, procs, embVars, srchVars, ingVars>>

NextIngest ==
    \/ \E full_scan \in BOOLEAN : IngestScan(<<"notes">>, NoSince, full_scan, {})
    \/ IngestDelete
    \/ \E env \in IngestEnvs : IngestChunk(env)
    \/ IngestDone
    \/ Crash
    \/ \E numeric \in SUBSET {"Ops", "Other"}, embedded \in SUBSET {"Ops", "Other"} :
          IngestMemory(numeric, embedded)

\* the ingest command run again and again while the files are edited
NextLedger ==
    \/ Tick
    \/ \E f \in Files : \E content \in Contents(f) : WriteFile(f, content)
    \/ \E f \in Files : RemoveFile(f)
    \/ \E since \in Sinces, full_scan \in BOOLEAN : IngestScan(<<"notes">>, since, full_scan, {})
    \/ IngestDelete
    \/ \E env \in {e \in IngestEnvs : e.remote[1]} : IngestChunk(env)
    \/ IngestDone

SpecIngest == InitIngest /\ [][NextIngest]_vars

SpecLedger == InitIngest /\ [][NextLedger]_vars

(***************************************************************************)
(* The ingest command over files that cannot be read or vanish             *)
(***************************************************************************)

\* a.md and b.md, one paragraph each that the filter accepts, each readable
\* or not
InitFaults ==
    /\ EmbIdle
    /\ CalcIdle
    /\ ProcsIdle
    /\ ecfg = IngestEmbedConfig
    /\ db = EmptyDB
    /\ SrchIdle
    /\ \E ra, rb \in BOOLEAN :
          disk = [f \in Files |->
                    [exists |-> TRUE, mtime |-> 0,
                     readable |-> IF f = NotesA THEN ra ELSE rb,
                     content |-> IF f = NotesA THEN <<"fox.", SP, "and">>
                                 ELSE <<"fox.", NL2, "Token.">>]]
    /\ clock = 0
    /\ ledgerFile = <<>>
    /\ run = NoRun
    /\ hist = NoHist

\* the permissions of a file are changed between two runs; content, size
\* and mtime stay
Chmod(f) ==
    /\ run.pc # "scanned" /\ run.pc # "storing"
    /\ disk[f].exists
    /\ disk' = [disk EXCEPT ![f].readable = ~@]
    /\ UNCHANGED <<calc, procs, embVars, db, srchVars, clock, ledgerFile, run, hist>>

NextFaults ==
    \/ \E f \in Files : Chmod(f)
    \/ \E full_scan \in BOOLEAN, gone \in SUBSET Files :
          IngestScan(<<"notes">>, NoSince, full_scan, gone)
    \/ IngestDelete
    \/ \E env \in IngestEnvs : IngestChunk(env)
    \/ IngestDone

SpecFaults == InitFaults /\ [][NextFaults]_vars

(***************************************************************************)
(* Ingestors that overlap in time on one ledger file                       *)
(***************************************************************************)

MaxIngestors == 4

SummaryS == <<"summary/", "s.md">>
AllFiles == Files \cup {SummaryS}
AllListing == <<NotesA, NotesB, SummaryS>>

Procs == {1, 2}

\* an Ingestor that has not been constructed, or has returned from ingest
NoIngestor == [pc |-> "none", ledger |-> <<>>]

\* three files, of which a.md is saved again once; saved is the history of the entries
\* that returned runs have written for the files they scanned, overlapped
\* tells that an Ingestor was constructed while another had not yet returned
InitOverlap ==
    /\ EmbIdle
    /\ CalcIdle
    /\ ecfg = IngestEmbedConfig
    /\ db = EmptyDB
    /\ SrchIdle
    /\ disk = [f \in AllFiles |->
                 [exists |-> TRUE, mtime |-> 0, readable |-> TRUE,
                  content |-> IF f = NotesB THEN <<"Token.">> ELSE <<"fox.", SP, "and">>]]
    /\ clock = 0
    /\ ledgerFile = <<>>
    /\ run = NoRun
    /\ hist = NoHist
    /\ procs = [kind |-> "ingestors", inst |-> [p \in Procs |-> NoIngestor],
                saved |-> <<>>, overlapped |-> FALSE, started |-> 0]

\* Ingestor.__init__: the ledger file is read
NewIngestor(p) ==
    /\ procs.inst[p].pc = "none"
    /\ procs.started < MaxIngestors
    /\ procs' = [procs EXCEPT
                   !.inst[p] = [pc |-> "loaded", ledger |-> ledgerFile],
                   !.overlapped = @ \/ \E q \in Procs \ {p} : procs.inst[q].pc = "loaded",
                   !.started = @ + 1]
    /\ UNCHANGED <<calc, embVars, db, srchVars, ingVars>>

\* Ingestor.ingest(sources, full_scan=full_scan): the scan, and the ledger
\* file written over
IngestRun(p, sources, full_scan) ==
    LET r == Ingest(procs.inst[p].ledger, disk, sources, AllListing, NoSince, full_scan,
                    clock, {})
        targets == Targets(sources, AllListing, disk)
        seen == {targets[i].f : i \in 1..Len(targets)}
    IN /\ procs.inst[p].pc = "loaded"
       /\ ledgerFile' = r.next_ledger
       /\ procs' = [procs EXCEPT
                      !.inst[p] = NoIngestor,
                      !.saved = [f \in DOMAIN @ \cup seen |->
                                    IF f \in seen THEN r.next_ledger[f] ELSE @[f]]]
       /\ UNCHANGED <<calc, embVars, db, srchVars, disk, clock, run, hist>>

\* an editor saves a.md again, a second later, with the same text
Touch ==
    /\ disk[NotesA].mtime = 0
    /\ disk' = [disk EXCEPT ![NotesA].mtime = 2]
    /\ UNCHANGED <<calc, procs, embVars, db, srchVars, clock, ledgerFile, run, hist>>

NextOverlap ==
    \/ Touch
    \/ \E p \in Procs : NewIngestor(p)
    \/ \E p \in Procs, sources \in {<<"notes">>, <<"summary">>}, full_scan \in BOOLEAN :
          IngestRun(p, sources, full_scan)

SpecOverlap == InitOverlap /\ [][NextOverlap]_vars

(***************************************************************************)
(* Enough texts to fill the cache up to a flush                            *)
(***************************************************************************)

MaxTexts == 22

\* the k-th text: k times the word "and"
NthText(k) == [i \in 1..k |-> "and"]

\* the texts of 1..MaxTexts that the instance has no entry for
Missing == {k \in 1..MaxTexts : TextHash(NthText(k)) \notin DOMAIN emb.cache}

FirstMissing == CHOOSE k \in Missing : \A j \in Missing : k <= j

\* requests are made for the first text and for the first one without an
\* entry
FlushTexts == {NthText(1)} \cup (IF Missing = {} THEN {} ELSE {NthText(FirstMissing)})

\* batches: none, the first missing text, that text after the first text
\* or before its successor
FlushBatches ==
    {<<>>} \cup
    (IF Missing = {} THEN {}
     ELSE {<<NthText(FirstMissing)>>, <<NthText(1), NthText(FirstMissing)>>,
           <<NthText(FirstMissing), NthText(Min(FirstMissing + 1, MaxTexts))>>})

InitFlush ==
    /\ EmbIdle
    /\ CalcIdle
    /\ ProcsIdle
    /\ ecfg = IngestEmbedConfig
    /\ db = EmptyDB
    /\ SrchIdle
    /\ IngIdle

\* one call of get_embeddings_batch(texts)
BatchRequest(texts, envs) ==
    LET b == GetEmbeddingsBatch(Bind(emb, cacheFile), ecfg, texts, envs)
    IN /\ emb' = Unbind(b.st)
       /\ cacheFile' = b.st.file
       /\ req' = [made |-> TRUE,
                  text |-> IF texts = <<>> THEN <<>> ELSE texts[Len(texts)],
                  result |-> IF texts = <<>> THEN NoVector ELSE b.results[Len(texts)],
                  log |-> b.log, epoch |-> epoch]
       /\ UNCHANGED <<calc, procs, ecfg, epoch, degradeSeen, db, srchVars, ingVars>>

NextFlush ==
    \/ \E text \in FlushTexts, env \in IngestEnvs : Request(text, env)
    \/ \E texts \in FlushBatches :
          \E envs \in [1..Len(texts) -> IngestEnvs] : BatchRequest(texts, envs)
    \/ Restart

SpecFlush == InitFlush /\ [][NextFlush]_vars

(***************************************************************************)
(* should_process_file on bounded inputs                                   *)
(***************************************************************************)

MaxTicks == 3

\* the ledgers: no entry for a.md, or one with a whole-second mtime and the
\* size of one of the two texts
DecisionLedgers ==
    {<<>>} \cup
    {[f \in {NotesA} |-> [mtime |-> m, size |-> TextLen(c)]] :
        m \in 0..(MaxTicks \div 2), c \in {<<"fox.">>, <<"fox.", SP, "and">>}}

DecisionSinces == {NoSince} \cup {[some |-> TRUE, ticks |-> t] : t \in 0..MaxTicks}

InitDecision ==
    /\ EmbIdle
    /\ CalcIdle
    /\ ProcsIdle
    /\ ecfg = IngestEmbedConfig
    /\ db = EmptyDB
    /\ SrchIdle
    /\ IngIdle

\* Ingestor.should_process_file(a.md, since_days, full_scan) at the time now,
\* on a ledger and a file as given
ShouldProcessCall(ledger, mtime, content, since, full_scan, now) ==
    LET d == [f \in Files |->
                 IF f = NotesA
                 THEN [exists |-> TRUE, content |-> content, mtime |-> mtime,
                       readable |-> TRUE]
                 ELSE [exists |-> FALSE, content |-> <<>>, mtime |-> 0, readable |-> TRUE]]
    IN /\ calc = NoCalc
       /\ calc' = [kind |-> "should_process", ledger |-> ledger, mtime |-> mtime,
                   size |-> TextLen(content), since |-> since, full_scan |-> full_scan,
                   now |-> now,
                   result |-> ShouldProcessFile(ledger, d, NotesA, since, full_scan, now)]
       /\ UNCHANGED <<procs, embVars, db, srchVars, ingVars>>

NextDecision ==
    \E ledger \in DecisionLedgers, mtime \in 0..MaxTicks,
       content \in {<<"fox.">>, <<"fox.", SP, "and">>}, since \in DecisionSinces,
       full_scan \in BOOLEAN, now \in 0..MaxTicks :
        ShouldProcessCall(ledger, mtime, content, since, full_scan, now)

SpecDecision == InitDecision /\ [][NextDecision]_vars

(***************************************************************************)
(* Document ids of pairs of chunks                                         *)
(***************************************************************************)

\* texts, paths and sections spelled character by character, the separator
\* of the hashed string among the characters
IdTexts == {<<"a">>, <<"a", ":", "b">>, <<"b">>}
IdPaths == {<<"b">>, <<"b", ":", "c">>, <<"c">>}
IdSections == {<<>>, <<"c">>, <<"c", ":", "d">>}

Triples == [text : IdTexts, path : IdPaths, section : IdSections]

InitIds ==
    /\ EmbIdle
    /\ ecfg = IngestEmbedConfig
    /\ db = EmptyDB
    /\ SrchIdle
    /\ IngIdle
    /\ CalcIdle
    /\ ProcsIdle

\* the ids of two chunks, and the store after insert_document of the first
DocIds(a, b) ==
    LET chunk == Chunk(a.text, "notes", a.path, a.section)
        stored == StoreChunk(EmptyDB, chunk, NoVector)
    IN /\ calc = NoCalc
       /\ calc' = [kind |-> "doc_id", a |-> a, b |-> b,
                   id_a |-> GenerateDocId(a.text, a.path, a.section),
                   id_b |-> GenerateDocId(b.text, b.path, b.section),
                   chunk_a |-> chunk.doc_id,
                   chunk_b |-> Chunk(b.text, "notes", b.path, b.section).doc_id,
                   persisted |-> DOMAIN stored.docs]
       /\ UNCHANGED <<procs, embVars, db, srchVars, ingVars>>

NextIds == \E a, b \in Triples : DocIds(a, b)

SpecIds == InitIds /\ [][NextIds]_vars

(***************************************************************************)
(* The chunker on bounded texts                                            *)
(***************************************************************************)

MaxLen == 4

\* what the texts are made of: atoms under min_chars, between the two limits
\* and over max_chars, with and without a sentence end, and the separators
ChunkTokens == {"note.", "fox.", "long.", "essay", SP, NL2}

ChunkTexts ==
    UNION {[1..n -> ChunkTokens] : n \in 0..MaxLen}

\* the limits a DocumentChunker is built with: [min_chars, max_chars]
ChunkLimits ==
    {[min_chars |-> MIN_CHARS, max_chars |-> MAX_CHARS],
     [min_chars |-> 41, max_chars |-> 1300],
     [min_chars |-> 150, max_chars |-> 150]}

InitChunk ==
    /\ EmbIdle
    /\ ecfg = IngestEmbedConfig
    /\ db = EmptyDB
    /\ SrchIdle
    /\ IngIdle
    /\ CalcIdle
    /\ ProcsIdle

\* DocumentChunker(max_chars, min_chars).chunk_document(text, ...)
ChunkCall(text, limits) ==
    /\ calc = NoCalc
    /\ calc' = [kind |-> "chunks", text |-> text, min_chars |-> limits.min_chars,
                max_chars |-> limits.max_chars,
                chunks |-> ChunkDocument(text, "notes", NotesA, <<"a">>,
                                         limits.min_chars, limits.max_chars)]
    /\ UNCHANGED <<procs, embVars, db, srchVars, ingVars>>

NextChunk == \E text \in ChunkTexts, limits \in ChunkLimits : ChunkCall(text, limits)

SpecChunk == InitChunk /\ [][NextChunk]_vars

(***************************************************************************)
(* Properties of ingestion                                                 *)
(***************************************************************************)

\* C1: the store holds no document whose text matches a deny pattern,
\* whichever entry point wrote it.
C1_NoDeniedTextStored ==
    \A id \in DOMAIN db.docs : ~MatchesDeny(db.docs[id].text)

\* C4: a scan without full_scan and without a since window leaves a file the
\* scan before it processed alone when its (mtime, size) is what it was, and
\* processes it again when its mtime or its size changed.
C4_LedgerIdempotence ==
    hist.incremental =>
        \A f \in Files :
            hist.prev[f].processed /\ hist.cur[f].exists =>
                LET same == /\ hist.cur[f].mtime = hist.prev[f].mtime
                            /\ hist.cur[f].size = hist.prev[f].size
                IN hist.cur[f].processed <=> ~same

\* the chunks of a file the store must hold once the file is ingested
StoredChunks(f) ==
    \A chunk \in Range(ProcessFile(disk, f, "notes")) : HasDocument(db, DocIdOf(chunk))

\* C5: when the command has crashed, the ledger file holds the current
\* signature of a file only if the accepted chunks of the file are stored.
C5_LedgerAfterChunks ==
    run.pc = "crashed" =>
        \A f \in Files :
            /\ disk[f].exists
            /\ f \in DOMAIN ledgerFile
            /\ ledgerFile[f] = FileSignature(disk, f)
            => StoredChunks(f)

\* the ids a lexical search for query returns, whatever the ranking and the
\* iteration order
LexicalSearchFinds(query, id) ==
    \A ranking \in Perms(MatchingRows(db, query)) :
        LET fts_doc_ids == SearchFts(db, ranking, DefaultSearchConfig.topk_fts) IN
        \A order \in Perms(Range(fts_doc_ids)) :
            LET results == Fuse(fts_doc_ids, <<>>, order, db, DefaultSearchConfig,
                                Len(fts_doc_ids))
            IN \E i \in 1..Len(results) : results[i].doc.id = id

\* C8: a chunk whose embedding failed has its document row and its full-text
\* row and no vector row, the chunks before the current one are all stored,
\* and a lexical search for a word of the chunk returns it.
C8_FailedEmbeddingKept ==
    /\ \A id \in run.skipped :
          /\ HasDocument(db, id)
          /\ id \in RowIds(db.fts)
          /\ id \notin RowIds(db.vecs)
          /\ LexicalSearchFinds("fox.", id)
    /\ run.pc \in {"storing", "idle"} =>
          \A j \in 1..(run.i - 1) : HasDocument(db, DocIdOf(run.documents[j]))

\* a run that skipped the embedding of one chunk and stored the vector of
\* the chunk after it
C8_Witness ==
    /\ run.pc = "idle"
    /\ \E j, k \in 1..Len(run.documents) :
          /\ j < k
          /\ DocIdOf(run.documents[j]) \in run.skipped
          /\ DocIdOf(run.documents[k]) \in RowIds(db.vecs)

(***************************************************************************)
(* Properties of search and of the index                                   *)
(***************************************************************************)

IdA == GenerateDocId(DocA.text, DocA.path, DocA.section)
IdB == GenerateDocId(DocB.text, DocB.path, DocB.section)
IdC == GenerateDocId(DocC.text, DocC.path, DocC.section)

Searched == out.kind = "search" /\ ~out.raised

ResultIds == [i \in 1..Len(out.results) |-> out.results[i].doc.id]

\* the 1-based place of d in a list without repetitions
PlaceIn(list, d) == CHOOSE i \in 1..Len(list) : list[i] = d

\* the score the fusion rule gives d: w_fts/(k + rank_fts) if d is in the
\* lexical list, plus w_vec/(k + rank_vec) if d is in the vector list
RuleScore(d) ==
    FracAdd(IF d \in Range(out.fts_doc_ids)
            THEN Frac(scfg.w_fts, scfg.rrf_k + PlaceIn(out.fts_doc_ids, d))
            ELSE Frac(0, 1),
            IF d \in Range(out.vec_doc_ids)
            THEN Frac(scfg.w_vec, scfg.rrf_k + PlaceIn(out.vec_doc_ids, d))
            ELSE Frac(0, 1))

\* the example of the fusion rule: lexical ranks {A:1, B:2}, vector ranks
\* {B:1, C:2}, w_fts = 0.6, w_vec = 0.4, k = 60, the three documents in the
\* store and room for three results
ExampleSearch ==
    /\ Searched
    /\ {IdA, IdB, IdC} \subseteq DOMAIN db.docs
    /\ out.fts_doc_ids = <<IdA, IdB>>
    /\ out.vec_doc_ids = <<IdB, IdC>>
    /\ scfg = DefaultSearchConfig
    /\ out.top_k >= 3

\* C2: every returned document carries the score of the fusion rule, with
\* 1-based ranks taken in list order, and the example search returns B, A, C.
C2_FusedScore ==
    Searched =>
        /\ \A i \in 1..Len(out.results) :
              FracEq(out.results[i].score, RuleScore(out.results[i].doc.id))
        /\ ExampleSearch => ResultIds = <<IdB, IdA, IdC>>

\* the example search has happened and returned three documents
C2_Witness ==
    /\ ExampleSearch
    /\ Len(out.results) = 3

\* the candidates of the last search the store still holds
Hydrated == {d \in Range(out.fts_doc_ids) \cup Range(out.vec_doc_ids) : HasDocument(db, d)}

\* C3: a search returns at most top_k results, in non-increasing score
\* order, and no hydrated candidate it left out scores strictly more than a
\* returned one.
C3_TopKSorted ==
    Searched =>
        /\ Len(out.results) <= out.top_k
        /\ \A i, j \in 1..Len(out.results) :
              i < j => ~FracLess(out.results[i].score, out.results[j].score)
        /\ \A d \in Hydrated \ Range(ResultIds) :
              \A i \in 1..Len(out.results) : ~FracLess(out.results[i].score, RuleScore(d))

\* a search that cut its candidates: two returned with different scores, a
\* third left out
C3_Witness ==
    /\ Searched
    /\ out.top_k = 2
    /\ Len(out.results) = 2
    /\ FracLess(out.results[2].score, out.results[1].score)
    /\ Hydrated \ Range(ResultIds) # {}

Rebuilt == out.kind = "rebuild"

\* C10: after a rebuild the id map is a bijection between the ordinals
\* 0..N-1 and the ids of the rows with a non-empty vector, and the index
\* holds N vectors.
C10_IdMapBijection ==
    Rebuilt =>
        LET rows == ValidRows(db)
            N == Len(rows)
            ids == {rows[i].doc_id : i \in 1..N}
            map == searcher.id_to_doc_id
        IN /\ DOMAIN map = {ToString(i) : i \in 0..(N - 1)}
           /\ {map[key] : key \in DOMAIN map} = ids
           /\ \A a, b \in DOMAIN map : map[a] = map[b] => a = b
           /\ NTotal(searcher.faiss_index) = N

\* the vector retrieval of the last search was left out: no index, an empty
\* index, or no query embedding
LexicalOnly ==
    \/ ~searcher.faiss_index.some
    \/ NTotal(searcher.faiss_index) = 0
    \/ out.embedding = "failed"

\* the results are the candidates of list that the store holds, cut to
\* top_k, each scored w/(k + rank) by its 1-based rank in list
ReturnsList(list, w) ==
    /\ Range(ResultIds) \subseteq Range(list)
    /\ Len(out.results) =
          Min(out.top_k, Cardinality({d \in Range(list) : HasDocument(db, d)}))
    /\ \A i \in 1..Len(out.results) :
          FracEq(out.results[i].score, Frac(w, scfg.rrf_k + PlaceIn(list, ResultIds[i])))

\* C12: a search without index, with an empty index or without query
\* embedding returns the lexical candidates scored by the lexical term alone;
\* a search whose lexical list is empty returns the vector candidates; a
\* lexical candidate without stored embedding is returned whenever the
\* results are not cut short of it by top_k.
C12_DegradesGracefully ==
    Searched =>
        /\ LexicalOnly =>
              /\ out.vec_doc_ids = <<>>
              /\ ReturnsList(out.fts_doc_ids, scfg.w_fts)
        /\ out.fts_doc_ids = <<>> => ReturnsList(out.vec_doc_ids, scfg.w_vec)
        /\ \A d \in Range(out.fts_doc_ids) :
              (d \notin RowIds(db.vecs) /\ Cardinality(Hydrated) <= out.top_k)
                  => d \in Range(ResultIds)

\* the query embedding failed on a loaded, non-empty index and the search
\* returned two lexical candidates, one of them stored without embedding
C12_Witness ==
    /\ Searched
    /\ out.embedding = "failed"
    /\ NTotal(searcher.faiss_index) > 0
    /\ Len(out.results) = 2
    /\ \E i \in 1..2 : ResultIds[i] \notin RowIds(db.vecs)

\* the query vectors of the comparison
QueryVectors == {<<0, 0>>, <<3, 2>>, <<4, 1>>, <<1, 1, 1>>}

\* the documents the index of s gives for the query vector q, nearest first
TopKIds(s, q, k) ==
    IF s.faiss_index.some /\ NTotal(s.faiss_index) > 0 /\ Len(q) = s.faiss_index.d
    THEN VecDocIds(FlatSearch(s.faiss_index, q, Min(k, NTotal(s.faiss_index))),
                   s.id_to_doc_id)
    ELSE <<>>

\* C15: a rebuild that follows a rebuild, the store untouched in between,
\* leaves the number of indexed vectors, the id map, the saved files and
\* the top-K documents of every query vector as the first one left them.
C15_RebuildIdempotent ==
    [][(out.kind = "rebuild" /\ out'.kind = "rebuild") =>
          /\ NTotal(searcher'.faiss_index) = NTotal(searcher.faiss_index)
          /\ searcher'.id_to_doc_id = searcher.id_to_doc_id
          /\ out'.raised = out.raised
          /\ indexFile' = indexFile /\ idMapFile' = idMapFile
          /\ \A q \in QueryVectors, k \in 1..MaxTopK :
                TopKIds(searcher', q, k) = TopKIds(searcher, q, k)]_vars

\* a second rebuild in a row has indexed two vectors
C15_Witness ==
    /\ out.kind = "rebuild"
    /\ out.nth = 2
    /\ ~out.raised
    /\ NTotal(searcher.faiss_index) = 2
    /\ TopKIds(searcher, <<4, 1>>, MaxTopK) # TopKIds(searcher, <<0, 0>>, MaxTopK)

\* the stored vectors that have the dimension of the first valid one
FirstDimensionRows ==
    LET rows == ValidRows(db)
        sameDim(r) == Len(r.embedding) = Len(rows[1].embedding)
    IN SelectSeq(rows, sameDim)

\* C18: a rebuild over a store with valid vectors completes, and its index
\* holds the vectors that have the first valid vector's dimension, as they
\* are stored, and no other.
C18_MixedDimensionsSkipped ==
    (Rebuilt /\ ValidRows(db) # <<>>) =>
        /\ ~out.raised
        /\ searcher.faiss_index.xb =
              [i \in 1..Len(FirstDimensionRows) |-> FirstDimensionRows[i].embedding]

\* the candidates in input order: the lexical list, then the documents only
\* the vector list has, in its order
InputOrder ==
    LET onlyVec(d) == d \notin Range(out.fts_doc_ids)
    IN out.fts_doc_ids \o SelectSeq(out.vec_doc_ids, onlyVec)

\* C20: two returned documents with equal scores stand in input order.
C20_TieOrder ==
    Searched =>
        \A i, j \in 1..Len(out.results) :
            (i < j /\ FracEq(out.results[i].score, out.results[j].score))
                => PlaceIn(InputOrder, ResultIds[i]) < PlaceIn(InputOrder, ResultIds[j])

(***************************************************************************)
(* Properties of the embedding service                                     *)
(***************************************************************************)

RemoteTier == {"remote_ok", "remote_fail", "sleep"}
LocalTier == {"local_unavailable", "local_init_ok", "local_init_fail",
              "local_load_ok", "local_load_fail", "local_ok", "local_fail"}
LocalFailure == {"local_unavailable", "local_init_fail", "local_load_fail", "local_fail"}
TierSuccess == {"cache_hit", "remote_ok", "local_ok", "degrade"}

CountBefore(log, i, name) == Cardinality({j \in 1..(i - 1) : log[j].ev = name})

RemoteExhausted(log, i) ==
    /\ CountBefore(log, i, "remote_fail") = ecfg.max_retries
    /\ CountBefore(log, i, "remote_ok") = 0

\* C6: every request tries the tiers in the order cache, remote API, local
\* model, degrade vector, and stops at the first tier that succeeds: the
\* local model is not touched before max_retries remote attempts have failed
\* (when a credential is configured), the degrade vector is not made before
\* the local tier has failed or is disabled, and the result is the vector of
\* the tier that succeeded.
C6_TierOrder ==
    req.made =>
        LET log == req.log IN
        /\ \A i \in 1..Len(log) :
            /\ log[i].ev = "cache_hit" => Len(log) = 1
            /\ log[i].ev \in RemoteTier =>
                /\ ecfg.api_key
                /\ \A j \in 1..(i - 1) : log[j].ev \in RemoteTier
            /\ log[i].ev \in {"remote_ok", "remote_fail"} =>
                log[i].n = CountBefore(log, i, "remote_fail") + 1
            /\ log[i].ev \in LocalTier =>
                /\ ecfg.enable_local_fallback
                /\ ecfg.api_key => RemoteExhausted(log, i)
                /\ \A j \in 1..(i - 1) : log[j].ev # "degrade"
            /\ log[i].ev = "degrade" =>
                /\ ecfg.api_key => RemoteExhausted(log, i)
                /\ \/ ~ecfg.enable_local_fallback
                   \/ \E j \in 1..(i - 1) : log[j].ev \in LocalFailure
            /\ log[i].ev \in TierSuccess => i = Len(log) /\ req.result.ok
        /\ req.result.ok =>
            /\ log # <<>>
            /\ log[Len(log)].ev \in TierSuccess
            /\ log[Len(log)].ev = "remote_ok" => req.result.vec = RemoteEmbedding(req.text)
            /\ log[Len(log)].ev = "local_ok" => req.result.vec = LocalEmbedding(req.text)

\* a request that went through every tier: all remote attempts failed, the
\* local model failed, the degrade vector was returned
C6_Witness ==
    /\ req.made /\ req.result.ok
    /\ ecfg.api_key /\ ecfg.max_retries >= 2
    /\ Len(req.log) >= 2
    /\ req.log[Len(req.log)].ev = "degrade"
    /\ req.log[Len(req.log) - 1].ev = "local_fail"

\* C7: with the degrade fallback enabled every request returns a vector.
C7_DegradeNeverFails ==
    (req.made /\ ecfg.enable_degrade_vector) => req.result.ok

\* C9: a degrade vector returned for a text equals the degrade vector
\* returned for that text before, by this process or by an earlier one, and
\* has max(8, configured dimension) components.
C9_DegradeDeterministic ==
    (req.made /\ IsDegrade(req)) =>
        /\ req.text \in DOMAIN degradeSeen
        /\ req.result.vec = degradeSeen[req.text].vec
        /\ Len(req.result.vec) = IF ecfg.degrade_dims >= 8 THEN ecfg.degrade_dims ELSE 8

\* the second process returns a degrade vector for a text the first process
\* returned one for, remote API failing, local fallback disabled, the
\* configured dimension below the floor
C9_Witness ==
    /\ req.made /\ IsDegrade(req)
    /\ req.epoch = 2
    /\ req.text \in DOMAIN degradeSeen
    /\ degradeSeen[req.text].epoch = 1
    /\ ecfg.api_key /\ ~ecfg.enable_local_fallback
    /\ ecfg.degrade_dims < 8
    /\ req.log[1].ev = "remote_fail"

(***************************************************************************)
(* Loading the saved index                                                 *)
(***************************************************************************)

\* the saved pair cannot be used: a file is missing or unreadable, or the id
\* map and the index differ in their number of entries
LoadFailure ==
    \/ ~indexFile.exists \/ ~idMapFile.exists
    \/ indexFile.corrupt \/ idMapFile.corrupt
    \/ NTotal(indexFile.data) # Cardinality(DOMAIN idMapFile.data)

\* C11: after a load from files that are missing, corrupt or do not match
\* each other in size, the searcher has no index and an empty id map.
C11_LoadFallsBack ==
    (out.kind = "load" /\ LoadFailure) => searcher = NewSearcher

(***************************************************************************)
(* Document ids                                                            *)
(***************************************************************************)

\* the two triples differ in exactly one of text, path and section
DiffersInOne(a, b) ==
    Cardinality({c \in {"text", "path", "section"} : a[c] # b[c]}) = 1

\* C13: equal triples have equal ids, triples that differ in exactly one
\* component have different ids, and a chunk is stored under the id of its
\* triple and under no other.
C13_DocIdFunction ==
    calc.kind = "doc_id" =>
        /\ calc.a = calc.b => calc.id_a = calc.id_b
        /\ DiffersInOne(calc.a, calc.b) => calc.id_a # calc.id_b
        /\ calc.persisted = {calc.id_a}

\* two triples that differ in their section only, both with the separator
\* inside a component
C13_Witness ==
    /\ calc.kind = "doc_id"
    /\ DiffersInOne(calc.a, calc.b)
    /\ calc.a.section # calc.b.section
    /\ calc.a.text = <<"a", ":", "b">>
    /\ calc.persisted = {calc.id_a}

(***************************************************************************)
(* Chunker                                                                 *)
(***************************************************************************)

\* C14: every chunk chunk_document emits has a text of at least min_chars
\* and at most max_chars characters.
C14_ChunkBounds ==
    calc.kind = "chunks" =>
        \A i \in 1..Len(calc.chunks) :
            /\ calc.min_chars <= TextLen(calc.chunks[i].text)
            /\ TextLen(calc.chunks[i].text) <= calc.max_chars

(***************************************************************************)
(* Files that cannot be read or vanish                                     *)
(***************************************************************************)

\* C16: a scan that could not read a file leaves the file's ledger entry as
\* it was, and the next incremental scan hands the file to process_file
\* again.
C16_UnreadableRetried ==
    \A f \in Files :
        /\ hist.cur[f].read # "updated"
        /\ (hist.incremental /\ ~hist.aborted /\ hist.prev[f].read # "no"
                /\ hist.cur[f].exists)
              => hist.cur[f].attempted

\* C17: a scan is never aborted by one file: it returns, the ledger is
\* saved with the signature of every file that is there, and the accepted
\* chunks of every readable file it had to process are handed on.
C17_BestEffortPerFile ==
    hist.runs > 0 =>
        /\ ~hist.aborted
        /\ \A f \in Files :
              hist.cur[f].exists => HasEntry(ledgerFile, f, FileSignature(disk, f))
        /\ \A f \in Files :
              (hist.cur[f].attempted /\ hist.cur[f].read = "no" /\ run.pc = "scanned")
                  => \A c \in Range(ProcessFile(disk, f, "notes")) :
                        c \in Range(run.documents)

(***************************************************************************)
(* The local model after a failed load                                     *)
(***************************************************************************)

\* the request met a failure of a step of the load: the import and the
\* construction of LocalEmbedder, or _load_model
LoadFailed(log) ==
    \E i \in 1..Len(log) : log[i].ev \in {"local_init_fail", "local_load_fail"}

\* the request tried to load or to invoke the local model
TouchesLocal(log) ==
    \E i \in 1..Len(log) : log[i].ev \in LocalTier \ {"local_unavailable"}

\* C19: the request that follows, in the same process, a request whose load
\* of the local model failed neither loads nor invokes the local model.
C19_LocalStaysDisabled ==
    [][(req.made /\ req.epoch = epoch /\ LoadFailed(req.log) /\ epoch' = epoch)
          => ~TouchesLocal(req'.log)]_vars

(***************************************************************************)
(* Overlapping ingest runs                                                 *)
(***************************************************************************)

\* an entry a returned run wrote for a file it scanned is no more in the
\* ledger file, though the file is still there
LostUpdate ==
    \E f \in DOMAIN procs.saved :
        disk[f].exists /\ ~HasEntry(ledgerFile, f, procs.saved[f])

\* C21: an update of the ledger is lost only when two runs have overlapped
\* in time; runs executed one after another lose none.
C21_LostUpdateOnlyByOverlap ==
    procs.kind = "ingestors" => (LostUpdate => procs.overlapped)

\* two runs have overlapped and the entries the first finisher wrote for the
\* notes are gone from the ledger file, which holds the entry of the summary
C21_Witness ==
    /\ procs.kind = "ingestors"
    /\ procs.overlapped
    /\ LostUpdate
    /\ NotesA \in DOMAIN procs.saved
    /\ DOMAIN ledgerFile = {SummaryS}

(***************************************************************************)
(* An interrupted rebuild                                                  *)
(***************************************************************************)

\* C22: whatever the point at which a rebuild is killed, the next process
\* loads the pair of files from before the rebuild or the pair the rebuild
\* writes.
C22_RebuildAtomic ==
    [][(\E point \in KillPoints : RebuildKilled(point)) =>
          LET r == RebuildIndex(searcher, db, indexFile, idMapFile)
          IN \/ searcher' = LoadFaissIndex(indexFile, idMapFile)
             \/ searcher' = LoadFaissIndex(r.indexFile, r.idMapFile)]_vars

(***************************************************************************)
(* The decision to process a file                                          *)
(***************************************************************************)

\* the file's signature now (whole seconds, size) is not the one recorded
SignatureDiffers ==
    \/ NotesA \notin DOMAIN calc.ledger
    \/ calc.ledger[NotesA].mtime # calc.mtime \div 2
    \/ calc.ledger[NotesA].size # calc.size

\* C23: should_process_file is true under full_scan; else, with a since
\* window, true exactly when the mtime is after now minus the window; else
\* true exactly when the signature differs from the ledger's or is missing.
C23_ShouldProcess ==
    calc.kind = "should_process" =>
        calc.result =
            (IF calc.full_scan THEN TRUE
             ELSE IF calc.since.some THEN calc.mtime > calc.now - calc.since.ticks
             ELSE SignatureDiffers)

\* a file inside the since window whose signature is the recorded one: it
\* is processed, the ledger is not asked
C23_Witness ==
    /\ calc.kind = "should_process"
    /\ ~calc.full_scan
    /\ calc.since.some
    /\ ~SignatureDiffers
    /\ calc.result

(***************************************************************************)
(* The entries of files that are gone                                      *)
(***************************************************************************)

\* C24: after a scan the ledger file holds no entry of a file that the scan
\* did not see and that is not on disk, and it still holds every entry of a
\* file that the scan saw or that is on disk.
C24_LedgerPruned ==
    [][hist'.runs = hist.runs + 1 =>
          \A f \in Files :
              /\ f \in DOMAIN ledgerFile' => (hist'.cur[f].seen \/ disk'[f].exists)
              /\ (f \in DOMAIN ledgerFile /\ (hist'.cur[f].seen \/ disk'[f].exists))
                     => f \in DOMAIN ledgerFile']_vars

(***************************************************************************)
(* Requests for a text that is in the cache                                *)
(***************************************************************************)

\* the events of a log that are not a hit of the cache
BeyondCache(log) == {i \in 1..Len(log) : log[i].ev # "cache_hit"}

\* C25: a request for a text whose hash is in the cache returns the cached
\* vector with no remote attempt, no step of the local model and no degrade
\* vector, and leaves the cache, its dirty count, the local embedder and the
\* cache file as they were.
C25_CacheHitFrame ==
    [][(epoch' = epoch /\ req'.made /\ TextHash(req'.text) \in DOMAIN emb.cache) =>
          /\ req'.result = Vector(emb.cache[TextHash(req'.text)])
          /\ BeyondCache(req'.log) = {}
          /\ emb' = emb
          /\ cacheFile' = cacheFile]_vars

\* a hit on an entry that this process stored and has not flushed yet
C25_Witness ==
    /\ req.made
    /\ req.log = <<Ev("cache_hit", 0)>>
    /\ emb.dirty > 0
    /\ req.result = Vector(emb.cache[TextHash(req.text)])
    /\ TextHash(req.text) \notin DOMAIN cacheFile

(***************************************************************************)
(* Requests whose remote attempts all fail                                 *)
(***************************************************************************)

Count(log, name) == Cardinality({i \in 1..Len(log) : log[i].ev = name})

\* the fallback chain has run: the local model was asked if it is enabled,
\* and the degrade vector was made if it is enabled and the local model
\* gave no vector
FallbackRan(log) ==
    /\ ecfg.enable_local_fallback => \E i \in 1..Len(log) : log[i].ev \in LocalTier
    /\ (ecfg.enable_degrade_vector /\ Count(log, "local_ok") = 0)
          => Count(log, "degrade") = 1

\* C26: with a credential, a request that misses the cache and whose remote
\* attempts all fail makes max_retries attempts, sleeps after each but the
\* last (base to the power attempt - 1 after attempt number attempt), and
\* then runs the fallback chain.
C26_RetriesThenFallback ==
    (req.made /\ ecfg.api_key /\ Count(req.log, "cache_hit") = 0
        /\ Count(req.log, "remote_ok") = 0) =>
        LET log == req.log IN
        /\ Count(log, "remote_fail") = ecfg.max_retries
        /\ Count(log, "sleep") = IF ecfg.max_retries > 0 THEN ecfg.max_retries - 1 ELSE 0
        /\ \A i \in 1..Len(log) :
              /\ log[i].ev = "remote_fail" =>
                    /\ log[i].n = Count(SubSeq(log, 1, i - 1), "remote_fail") + 1
                    /\ log[i].n < ecfg.max_retries =>
                          (i < Len(log) /\ log[i + 1] = Ev("sleep", log[i].n - 1))
                    /\ log[i].n = ecfg.max_retries =>
                          (i < Len(log) => log[i + 1].ev # "sleep")
              /\ log[i].ev = "sleep" => (i > 1 /\ log[i - 1].ev = "remote_fail")
        /\ FallbackRan(log)

(***************************************************************************)
(* Requests without a credential                                           *)
(***************************************************************************)

\* C27: without a credential a request makes no remote attempt and no
\* sleep; on a miss of the cache it asks the local model if enabled, then
\* makes the degrade vector if enabled, and it returns no vector only when
\* the local model gave none and the degrade vector is disabled.
C27_NoCredential ==
    (req.made /\ ~ecfg.api_key) =>
        LET log == req.log IN
        /\ \A i \in 1..Len(log) : log[i].ev \notin RemoteTier
        /\ Count(log, "cache_hit") = 0 =>
              /\ FallbackRan(log)
              /\ \A i \in 1..Len(log) :
                    /\ log[i].ev \in LocalTier =>
                          (ecfg.enable_local_fallback /\ Count(SubSeq(log, 1, i), "degrade") = 0)
                    /\ log[i].ev = "degrade" =>
                          \/ ~ecfg.enable_local_fallback
                          \/ \E j \in 1..(i - 1) : log[j].ev \in LocalFailure
              /\ req.result.ok <=>
                    (Count(log, "local_ok") = 1 \/ ecfg.enable_degrade_vector)

\* without a credential the local model was asked and failed, and the
\* degrade vector was returned
C27_Witness ==
    /\ req.made /\ ~ecfg.api_key
    /\ req.result.ok
    /\ Len(req.log) >= 2
    /\ req.log[Len(req.log)].ev = "degrade"
    /\ req.log[Len(req.log) - 1].ev \in LocalFailure

(***************************************************************************)
(* What a request returns is what the cache holds                          *)
(***************************************************************************)

\* the vector of the last request of this instance is the cache's entry for
\* the hash of its text
ReturnedIsCached ==
    (req.made /\ req.result.ok /\ req.epoch = epoch) =>
        /\ TextHash(req.text) \in DOMAIN emb.cache
        /\ req.result.vec = emb.cache[TextHash(req.text)]

\* within an instance an entry of the cache stays as it is, and a request
\* for a text that has an entry returns it
EntriesStay ==
    epoch' = epoch =>
        /\ \A h \in DOMAIN emb.cache :
              h \in DOMAIN emb'.cache /\ emb'.cache[h] = emb.cache[h]
        /\ (req'.made /\ TextHash(req'.text) \in DOMAIN emb.cache) =>
              req'.result = Vector(emb.cache[TextHash(req'.text)])

\* C28: when a request returns a vector, from the remote API, the local
\* model or the degrade tier, the cache of the instance maps the hash of
\* the text to that vector, and every later request of the instance for
\* the text returns the same vector.
C28_ReturnedIsCached == []ReturnedIsCached /\ [][EntriesStay]_vars

\* the local model gave the vector and the cache holds it
C28_Witness ==
    /\ req.made /\ req.result.ok /\ req.epoch = epoch
    /\ req.log[Len(req.log)].ev = "local_ok"
    /\ emb.cache[TextHash(req.text)] = LocalEmbedding(req.text)

(***************************************************************************)
(* When the cache file is written                                          *)
(***************************************************************************)

BatchReturned == req.made /\ req.log # <<>> /\ req.log[Len(req.log)].ev = "batch_end"

\* a write of the file stores the whole cache and resets the count; it is
\* made by the write that brings the count to FLUSH_EVERY or at the end of
\* a batch
WrittenOnFlush ==
    cacheFile' # cacheFile =>
        /\ cacheFile' = emb'.cache
        /\ emb'.dirty = 0
        /\ \/ BatchReturned'
           \/ emb.dirty = FLUSH_EVERY - 1 /\ DOMAIN emb'.cache # DOMAIN emb.cache

\* C29: the cache file is written only when the count of unsaved writes
\* reaches FLUSH_EVERY, which resets the count, or at the end of
\* get_embeddings_batch; the count stays within 0..FLUSH_EVERY - 1; when
\* get_embeddings_batch returns, the file holds the cache.
C29_FlushDiscipline ==
    /\ [](emb.dirty \in 0..(FLUSH_EVERY - 1))
    /\ []((BatchReturned /\ req.epoch = epoch) => (cacheFile = emb.cache /\ emb.dirty = 0))
    /\ [][WrittenOnFlush]_vars

\* the twentieth write of single requests has flushed the cache
C29_Witness ==
    /\ req.made /\ req.epoch = epoch
    /\ req.log = <<Ev("remote_ok", 1)>>
    /\ emb.dirty = 0
    /\ Cardinality(DOMAIN cacheFile) >= FLUSH_EVERY
    /\ cacheFile = emb.cache

(***************************************************************************)
(* What changes the vector index                                           *)
(***************************************************************************)

\* a step that is not a rebuild leaves the two files alone; a search, an
\* insert, an update of an embedding and a delete leave the searcher's
\* index and id map alone; a load gives the new process the pair of the
\* files, or the empty searcher
IndexFrame ==
    /\ out'.kind # "rebuild" => (indexFile' = indexFile /\ idMapFile' = idMapFile)
    /\ out'.kind \notin {"rebuild", "load"} => searcher' = searcher
    /\ out'.kind = "load" =>
          \/ searcher' = NewSearcher
          \/ searcher' = [faiss_index |-> indexFile.data, id_to_doc_id |-> idMapFile.data]

\* C30: the vector index and its id map, in memory and on disk, are changed
\* by rebuild_index only: a search, a load and the operations of ingestion
\* on the store leave them as they are.
C30_IndexFrame == [][IndexFrame]_vars

\* a search on an index that is older than the store: a chunk was deleted
\* and another stored since the rebuild, and index and files are still
\* those of the rebuild
C30_Witness ==
    /\ out.kind = "search" /\ ~out.raised
    /\ searcher.faiss_index.some
    /\ indexFile = File(searcher.faiss_index)
    /\ idMapFile = File(searcher.id_to_doc_id)
    /\ \E i \in DOMAIN searcher.id_to_doc_id :
          searcher.id_to_doc_id[i] \notin DOMAIN db.docs
    /\ \E id \in RowIds(db.vecs) :
          \A i \in DOMAIN searcher.id_to_doc_id : searcher.id_to_doc_id[i] # id

(***************************************************************************)
(* Candidates whose document is gone                                       *)
(***************************************************************************)

\* C31: every result of a search carries a document that is in the store,
\* with the record the store holds for it, whatever was deleted or stored
\* since the index was built.
C31_StaleDropped ==
    (out.kind = "search" /\ ~out.raised) =>
        \A i \in 1..Len(out.results) :
            /\ out.results[i].doc.id \in DOMAIN db.docs
            /\ out.results[i].doc = GetDocumentById(db, out.results[i].doc.id)

\* the index gave a candidate whose document was deleted since the
\* rebuild; the search returned the others
C31_Witness ==
    /\ out.kind = "search" /\ ~out.raised
    /\ \E i \in 1..Len(out.vec_doc_ids) : out.vec_doc_ids[i] \notin DOMAIN db.docs
    /\ out.results # <<>>

(***************************************************************************)
(* The paragraphs of the chunks                                            *)
(***************************************************************************)

\* the number a label writes
LabelNumber(str) == CHOOSE n \in 0..(MaxLen + 1) : ToString(n) = str

\* the origin tag of a chunk and the paragraphs (0-based) it names
ChunkTag(c) == c.section[Len(c.section) - (IF c.section[Len(c.section) - 1] = "_" THEN 3 ELSE 1)]
ChunkFirst(c) ==
    LabelNumber(c.section[Len(c.section) - (IF ChunkTag(c) = "_para_" THEN 0 ELSE 2)])
ChunkLast(c) ==
    IF ChunkTag(c) = "_merged_" THEN LabelNumber(c.section[Len(c.section)]) ELSE ChunkFirst(c)
SentenceOf(c) == LabelNumber(c.section[Len(c.section)])

\* paragraphs i..j (0-based) joined by blank lines
RECURSIVE JoinParagraphs(_, _, _)
JoinParagraphs(paragraphs, i, j) ==
    IF i = j THEN paragraphs[i + 1]
    ELSE paragraphs[i + 1] \o <<NL2>> \o JoinParagraphs(paragraphs, i + 1, j)

\* every chunk names paragraphs of the text and, unless cut from
\* sentences, holds their text
ChunksNameParagraphs ==
    LET paragraphs == ChunkByParagraphs(calc.text) IN
    \A k \in 1..Len(calc.chunks) :
        LET c == calc.chunks[k] IN
        /\ ChunkFirst(c) <= ChunkLast(c)
        /\ ChunkLast(c) < Len(paragraphs)
        /\ ChunkTag(c) # "_sent_" =>
              c.text = JoinParagraphs(paragraphs, ChunkFirst(c), ChunkLast(c))

\* C32 as stated: the paragraphs of a chunk come after all the paragraphs
\* of the chunk before it, so no paragraph gives text to two chunks.
C32_DisjointParagraphs ==
    calc.kind = "chunks" =>
        /\ ChunksNameParagraphs
        /\ \A k \in 1..(Len(calc.chunks) - 1) :
              ChunkLast(calc.chunks[k]) < ChunkFirst(calc.chunks[k + 1])

\* C32, amended: the chunks come in the order of the paragraphs, and two
\* chunks share a paragraph only when they are successive sentence chunks
\* of that one paragraph.
C32_ParagraphOrder ==
    calc.kind = "chunks" =>
        /\ ChunksNameParagraphs
        /\ \A k \in 1..(Len(calc.chunks) - 1) :
              LET c == calc.chunks[k]
                  d == calc.chunks[k + 1]
              IN \/ ChunkLast(c) < ChunkFirst(d)
                 \/ /\ ChunkTag(c) = "_sent_" /\ ChunkTag(d) = "_sent_"
                    /\ ChunkFirst(c) = ChunkFirst(d)
                    /\ SentenceOf(c) < SentenceOf(d)

\* a paragraph over max_chars gave two sentence chunks
C32_Witness ==
    /\ calc.kind = "chunks"
    /\ \E k \in 1..(Len(calc.chunks) - 1) :
          /\ ChunkTag(calc.chunks[k]) = "_sent_"
          /\ ChunkTag(calc.chunks[k + 1]) = "_sent_"
          /\ ChunkFirst(calc.chunks[k]) = ChunkFirst(calc.chunks[k + 1])
          /\ SentenceOf(calc.chunks[k]) = 0 /\ SentenceOf(calc.chunks[k + 1]) = 1

(***************************************************************************)
(* Paragraphs within the limits                                            *)
(***************************************************************************)

\* C33: every paragraph of min_chars to max_chars characters is emitted as
\* a chunk of its own with its text; a merged chunk starts at a paragraph
\* under min_chars, holds it and the paragraphs behind it, and ends where
\* the run ends or where the minimum was reached.
C33_ParagraphsAsIs ==
    calc.kind = "chunks" =>
        LET paragraphs == ChunkByParagraphs(calc.text) IN
        /\ \A i \in 1..Len(paragraphs) :
              (calc.min_chars <= TextLen(paragraphs[i])
                  /\ TextLen(paragraphs[i]) <= calc.max_chars)
                 => \E k \in 1..Len(calc.chunks) :
                       /\ ChunkTag(calc.chunks[k]) = "_para_"
                       /\ ChunkFirst(calc.chunks[k]) = i - 1
                       /\ calc.chunks[k].text = paragraphs[i]
        /\ \A k \in 1..Len(calc.chunks) :
              LET c == calc.chunks[k] IN
              ChunkTag(c) = "_merged_" =>
                 /\ TextLen(paragraphs[ChunkFirst(c) + 1]) < calc.min_chars
                 /\ c.text = JoinParagraphs(paragraphs, ChunkFirst(c), ChunkLast(c))
                 /\ ChunkLast(c) > ChunkFirst(c) =>
                       TextLen(JoinParagraphs(paragraphs, ChunkFirst(c), ChunkLast(c) - 1))
                          < calc.min_chars

(***************************************************************************)
(* Labels and ids of the chunks of one document                            *)
(***************************************************************************)

\* C34: chunk_document run again on the same text, source, path and
\* section prefix gives the same chunks, with the same texts, labels and
\* ids; no two chunks of a document have the same label, and so none have
\* the same id.
C34_StableLabels ==
    calc.kind = "chunks" =>
        /\ ChunkDocument(calc.text, "notes", NotesA, <<"a">>, calc.min_chars, calc.max_chars)
              = calc.chunks
        /\ \A k, l \in 1..Len(calc.chunks) :
              k # l =>
                 /\ calc.chunks[k].section # calc.chunks[l].section
                 /\ calc.chunks[k].doc_id # calc.chunks[l].doc_id
                 /\ DocIdOf(calc.chunks[k]) # DocIdOf(calc.chunks[l])

\* two chunks of a document with the same text: only the label tells
\* them apart
C34_Witness ==
    /\ calc.kind = "chunks"
    /\ \E k, l \in 1..Len(calc.chunks) :
          /\ k # l
          /\ calc.chunks[k].text = calc.chunks[l].text
          /\ calc.chunks[k].doc_id # calc.chunks[l].doc_id

(***************************************************************************)
(* What a ledger entry stands for                                          *)
(***************************************************************************)

\* C35: when the ledger file holds, for a file on disk, the signature the
\* file has now, some scan has handed on the chunks of the file with that
\* signature.
C35_LedgerSound ==
    \A f \in Files :
        (disk[f].exists /\ HasEntry(ledgerFile, f, FileSignature(disk, f)))
            => FileSignature(disk, f) \in hist.produced[f]

(***************************************************************************)
(* What the store holds for a file after the ingest command                *)
(***************************************************************************)

\* what an editor leaves in a file: also a.md with the same paragraph twice
RewrittenContents(f) ==
    IF f = NotesA THEN Contents(f) \cup {<<"fox.", NL2, "fox.">>} ELSE Contents(f)

\* the command run again after files were rewritten, with embeddings that
\* succeed or fail
NextReplace ==
    \/ \E f \in Files : \E content \in RewrittenContents(f) : WriteFile(f, content)
    \/ \E full_scan \in BOOLEAN : IngestScan(<<"notes">>, NoSince, full_scan, {})
    \/ IngestDelete
    \/ \E env \in IngestEnvs : IngestChunk(env)
    \/ IngestDone

SpecReplace == InitIngest /\ [][NextReplace]_vars

\* the ids of the documents stored under a path
IdsUnder(store, f) == {id \in DOMAIN store.docs : store.docs[id].path = f}

\* the chunks of a file in the documents the scan returned
ChunksFrom(f) == {chunk \in Range(run.documents) : chunk.path = f}

\* the rows of a table that carry an id
RowsOf(rows, id) == {i \in 1..Len(rows) : rows[i].doc_id = id}

\* the documents, full-text rows and vectors under f are those of the chunks
\* the run took from f
HoldsThisRun(f) ==
    /\ IdsUnder(db, f) = {DocIdOf(chunk) : chunk \in ChunksFrom(f)}
    /\ \A chunk \in ChunksFrom(f) :
          /\ db.docs[DocIdOf(chunk)].text = chunk.text
          /\ db.docs[DocIdOf(chunk)].section = chunk.section
          /\ \E i \in 1..Len(db.fts) :
                /\ RowsOf(db.fts, DocIdOf(chunk)) = {i}
                /\ db.fts[i].content = chunk.text
          /\ Cardinality(RowsOf(db.vecs, DocIdOf(chunk)))
                = IF DocIdOf(chunk) \in run.skipped THEN 0 ELSE 1

\* the delete step of the command takes away every row of the paths
\* processed
DeleteClears ==
    (run.pc = "scanned" /\ run'.pc = "storing") =>
        \A id \in DOMAIN db.docs :
            db.docs[id].path \in Range(run.processed_files) =>
                /\ id \notin DOMAIN db'.docs
                /\ id \notin RowIds(db'.fts)
                /\ id \notin RowIds(db'.vecs)

\* C36: once the ingest command has completed, the store holds under every
\* file processed in the run exactly the chunks the run accepted from it,
\* each with one full-text row, and the rows stored earlier for the file are
\* deleted before the chunks are inserted.
C36_ReplacedPerFile ==
    /\ [](run.pc = "idle" => \A f \in Range(run.processed_files) : HoldsThisRun(f))
    /\ [][DeleteClears]_vars

\* a completed run has taken two chunks from a file that the run before had
\* processed with another content
C36_Witness ==
    /\ run.pc = "idle"
    /\ hist.runs > 1
    /\ \E f \in Range(run.processed_files) :
          /\ hist.prev[f].processed
          /\ Cardinality(ChunksFrom(f)) > 1
          /\ hist.prev[f].size # hist.cur[f].size

(***************************************************************************)
(* The three tables under the store's own operations                       *)
(***************************************************************************)

\* the documents given to insert_document: the three chunks, and the first
\* one again as it comes from another source (the same id)
StoreDocs == {DocA, DocB, DocC, [DocA EXCEPT !.source = "summary"]}

StoreVectors == {<<>>, <<3, 2>>, <<1, 1, 1>>}

InitStore ==
    /\ EmbIdle
    /\ CalcIdle
    /\ ProcsIdle
    /\ ecfg = SearchEmbedConfig
    /\ db = EmptyDB
    /\ SrchIdle
    /\ IngIdle

\* insert_document(doc)
DbInsert(doc) ==
    /\ db' = InsertDocument(db, doc)
    /\ out' = [NoOut EXCEPT !.kind = "insert"]
    /\ UNCHANGED <<calc, procs, embVars, searcher, indexFile, idMapFile, scfg, ingVars>>

\* update_embedding(doc_id, embedding) for the id of a document in the store
DbUpdate(doc_id, embedding) ==
    /\ HasDocument(db, doc_id)
    /\ db' = UpdateEmbedding(db, doc_id, embedding)
    /\ out' = [NoOut EXCEPT !.kind = "update"]
    /\ UNCHANGED <<calc, procs, embVars, searcher, indexFile, idMapFile, scfg, ingVars>>

\* delete_documents_by_paths(paths)
DbDelete(paths) ==
    /\ db' = DeleteDocumentsByPaths(db, paths)
    /\ out' = [NoOut EXCEPT !.kind = "delete"]
    /\ UNCHANGED <<calc, procs, embVars, searcher, indexFile, idMapFile, scfg, ingVars>>

NextStore ==
    \/ \E doc \in StoreDocs : DbInsert(doc)
    \/ \E doc \in StoreDocs, embedding \in StoreVectors : DbUpdate(DocIdOf(doc), embedding)
    \/ \E paths \in SUBSET {NotesA, NotesB} : DbDelete(paths)

SpecStore == InitStore /\ [][NextStore]_vars

DegradeEntries(cache) ==
    {text \in DOMAIN degradeSeen :
        /\ TextHash(text) \in DOMAIN cache
        /\ cache[TextHash(text)] = degradeSeen[text].vec}

\* C38: while a process runs, a text whose cached vector is the degrade
\* vector keeps that entry, and every request for the text returns it as a
\* hit of the cache, with no remote attempt and no step of the local model,
\* whatever the remote API would answer now.
C38_DegradeSticks ==
    [][\A text \in DegradeEntries(emb.cache) :
          epoch' = epoch =>
              /\ text \in DegradeEntries(emb'.cache)
              /\ (req' # req /\ req'.text = text) =>
                    /\ req'.log = <<Ev("cache_hit", 0)>>
                    /\ req'.result = Vector(emb.cache[TextHash(text)])]_vars

\* a request hit the degrade vector of its text in a process that has a
\* credential and in which the remote API has answered for the other text
C38_Witness ==
    /\ req.made
    /\ req.log = <<Ev("cache_hit", 0)>>
    /\ req.text \in DegradeEntries(emb.cache)
    /\ ecfg.api_key
    /\ \E other \in Texts \ {req.text} :
          /\ TextHash(other) \in DOMAIN emb.cache
          /\ emb.cache[TextHash(other)] = RemoteEmbedding(other)

(***************************************************************************)
(* The store when the ledger entry of a deleted file is pruned             *)
(***************************************************************************)

\* the command run again after files were deleted
NextPrune ==
    \/ \E f \in Files : RemoveFile(f)
    \/ \E full_scan \in BOOLEAN : IngestScan(<<"notes">>, NoSince, full_scan, {})
    \/ IngestDelete
    \/ \E env \in {e \in IngestEnvs : e.remote[1]} : IngestChunk(env)
    \/ IngestDone

SpecPrune == InitIngest /\ [][NextPrune]_vars

\* the rows of the three tables that belong to the documents of a path
RowsUnder(store, f) ==
    LET under(r) == r.doc_id \in IdsUnder(store, f)
    IN [docs |-> Restrict(store.docs, IdsUnder(store, f)),
        fts |-> SelectSeq(store.fts, under),
        vecs |-> SelectSeq(store.vecs, under)]

\* no step changes the rows of a file that is not on disk
GoneFileKept ==
    \A f \in Files :
        (~disk[f].exists /\ ~disk'[f].exists) => RowsUnder(db', f) = RowsUnder(db, f)

\* a lexical search for a word of a document of a file that is not on disk
\* returns the document
GoneFileFound ==
    \A f \in Files :
        ~disk[f].exists =>
            \A id \in IdsUnder(db, f) : \A query \in Queries :
                (\E j \in 1..Len(db.docs[id].text) : Lower(db.docs[id].text[j]) = query)
                    => LexicalSearchFinds(query, id)

\* C39: a run that drops the ledger entry of a file deleted from disk
\* leaves the documents, full-text rows and vectors stored for the file's
\* path as they were, and a search still returns these documents.
C39_PruneLeavesStore ==
    /\ [][GoneFileKept]_vars
    /\ []GoneFileFound

\* a completed run has dropped the entry of a deleted file whose chunk, with
\* its vector, is in the store, and has stored the other file again
C39_Witness ==
    /\ run.pc = "idle"
    /\ run.processed_files # <<>>
    /\ \E f \in Files :
          /\ ~disk[f].exists
          /\ hist.prev[f].processed
          /\ f \notin DOMAIN ledgerFile
          /\ RowsUnder(db, f).vecs # <<>>

(***************************************************************************)
(* A rebuild over a store without a valid vector                           *)
(***************************************************************************)

\* C40: a rebuild over a vector table that is empty, or holds zero-length
\* vectors only, returns without an exception and leaves the searcher's
\* index and id map and the two index files as they were.
C40_EmptyRebuildFrame ==
    [][(out'.kind = "rebuild" /\ db' = db /\ ValidRows(db) = <<>>) =>
          /\ ~out'.raised
          /\ searcher' = searcher
          /\ indexFile' = indexFile
          /\ idMapFile' = idMapFile]_vars

\* a rebuild has run over a store whose only vectors are zero-length while
\* the searcher holds the index built before, which is also the one on disk
C40_Witness ==
    /\ out.kind = "rebuild"
    /\ db.vecs # <<>>
    /\ ValidRows(db) = <<>>
    /\ searcher.faiss_index.some
    /\ NTotal(searcher.faiss_index) > 0
    /\ indexFile = File(searcher.faiss_index)

=============================================================================
